---- MODULE Spec2Model ----
(***************************************************************************)
(* A model of the packaging helpers of wipac-dev-py-setup-action:          *)
(*   pyproject_toml_builder.py  (the TOML builder)                         *)
(*   setup_builder.py           (the INI builder)                          *)
(*                                                                         *)
(* Python strings that the code inspects character by character (version  *)
(* strings, commit messages, python releases, keywords) are sequences of   *)
(* one-character strings, so that `in`, startswith, split, int() and       *)
(* str() are computed, not assumed.                                        *)
(***************************************************************************)
EXTENDS Integers, Sequences, FiniteSets, TLC

VARIABLES
    builder,            \* which script runs: "toml" | "ini"
    pc,                 \* position of the script
    version,            \* project.version / __version__ (characters)
    commit_message,     \* the commit message (characters)
    patch_without_tag,  \* bool (GHAInput) or its text (BuilderSection)
    development_status, \* what the classifier returned or raised
    python_min,         \* GHAInput: <<major, minor>>; BuilderSection: characters
    python_max,         \* the same, or NONE / "" when not given
    latest_py3,         \* what get_latest_py3_release() answers when asked
    requires_python,    \* get_requires_python() / python_requires()
    classifiers,        \* python_classifiers()
    pypi_name,          \* "" or the PyPI name
    author,
    author_email,
    keywords,           \* GHAInput.keywords / BuilderSection.keywords_spaced (words)
    base_keywords,      \* --base-keywords of the INI builder
    package_dirs,       \* the package directories named by the user
    exclude_dirs,       \* GHAInput.exclude_dirs / --directory-exclude
    packages,           \* FromFiles.packages, once found
    readme,             \* suffix of the README found in the root, once found
    error,              \* "" or the error the run ended in
    cfg_writes,         \* writes of pyproject.toml / setup.cfg in this run
    readme_writes,      \* writes of the README in this run
    trees,              \* the sub-directory listings the root may hold
    inits,              \* the __version__ declarations the packages may hold
    auto_mypy_option,   \* GHAInput.auto_mypy_option
    doc,                \* the config file: its sections in file order
    doc_before,         \* the config file as the last run found it
    first_out,          \* the config file as the first run left it
    runs,               \* runs of the script on the config file so far
    readme_in,          \* the lines of the README as the run found it
    readme_out,         \* the lines the run writes to the README
    circleci,           \* whether the root holds .circleci/config.yml
    dep_file,           \* dependabot.yml on disk
    dep_doc,            \* ensure_dependabot.main: doc
    dep_in,             \* dependabot.yml as the run found it
    cfg_reads,          \* times the config file was opened for reading
    cfg_disk,           \* what the config file on disk holds
    argv,               \* the options on the command line
    args                \* main: args, the parsed options

vars == <<builder, pc, version, commit_message, patch_without_tag,
          development_status, python_min, python_max, latest_py3,
          requires_python, classifiers, pypi_name, author, author_email,
          keywords, base_keywords, package_dirs, exclude_dirs, packages,
          readme, error, cfg_writes, readme_writes, trees, inits,
          auto_mypy_option, doc, doc_before, first_out, runs,
          readme_in, readme_out, circleci, dep_file, dep_doc, dep_in,
          cfg_reads, cfg_disk, argv, args>>

classifyVars == <<version, commit_message, patch_without_tag, development_status>>
pythonVars == <<python_min, python_max, latest_py3, requires_python, classifiers>>
metaVars == <<pypi_name, author, author_email, keywords, base_keywords,
              package_dirs, exclude_dirs>>
foundVars == <<packages, readme>>
fileVars == <<error, cfg_writes, readme_writes>>
repoVars == <<trees, inits>>
docVars == <<auto_mypy_option, doc, doc_before, first_out, runs>>
readmeVars == <<readme_in, readme_out, circleci>>
depVars == <<dep_file, dep_doc, dep_in>>
argVars == <<argv, args>>

\* Python's None, and the value of a field not yet computed
NONE == "None"
\* no release given (None for GHAInput.python_max, "" for BuilderSection's)
NO_RELEASE == <<>>
\* a string / a list of strings not yet computed
NO_STRING == <<>>
NO_LIST == << <<>> >>

----------------------------------------------------------------------------
(* Bounds of the model *)

\* chunks of text a commit message is made of
MaxParts == 2
\* version components stand for the numbers 0..MaxNum (plus malformed ones)
MaxNum == 1
\* python releases 3.0 .. 3.MaxMinor are given as python_min / python_max
MaxMinor == 11

----------------------------------------------------------------------------
(* Python string operations on sequences of characters *)

\* `k in s` for strings: k occurs as a contiguous substring (case-sensitive)
StrIn(k, s) ==
    \E i \in 0..(Len(s) - Len(k)) : SubSeq(s, i + 1, i + Len(k)) = k

\* `==` written for startswith
StartsWith_Equal(s, p) == s = p

\* s.startswith(p)
StartsWith(s, p) ==
    Len(s) >= Len(p) /\ SubSeq(s, 1, Len(p)) = p

\* the split forgotten: the whole string
SplitDotFirst_NoSplit(s) == s

\* s.split(".")[0]: the text before the first ".", all of s when there is none
SplitDotFirst(s) ==
    IF \E i \in 1..Len(s) : s[i] = "."
    THEN LET i == CHOOSE j \in 1..Len(s) :
                      s[j] = "." /\ \A h \in 1..(j - 1) : s[h] # "."
         IN  SubSeq(s, 1, i - 1)
    ELSE s

Digits == <<"0", "1", "2", "3", "4", "5", "6", "7", "8", "9">>

IsDigit(c) == \E d \in 1..10 : Digits[d] = c

DigitVal(c) == (CHOOSE d \in 1..10 : Digits[d] = c) - 1

RECURSIVE DigitsVal(_)
DigitsVal(s) ==
    IF s = <<>> THEN 0
    ELSE 10 * DigitsVal(SubSeq(s, 1, Len(s) - 1)) + DigitVal(s[Len(s)])

\* int(s): an optional sign and one or more digits, else ValueError
\* (the strings of the model hold no blanks and no underscores)
PyInt(s) ==
    LET signed == s # <<>> /\ s[1] \in {"-", "+"}
        body == IF signed THEN Tail(s) ELSE s
    IN  IF body = <<>> \/ \E i \in 1..Len(body) : ~IsDigit(body[i])
        THEN [ok |-> FALSE, val |-> 0]
        ELSE [ok |-> TRUE,
              val |-> IF signed /\ s[1] = "-" THEN 0 - DigitsVal(body)
                      ELSE DigitsVal(body)]

\* str(n) for n >= 0: the decimal digits
RECURSIVE PyStr(_)
PyStr(n) ==
    IF n < 10 THEN <<Digits[n + 1]>>
    ELSE PyStr(n \div 10) \o <<Digits[(n % 10) + 1]>>

\* any(k in s for k in tags)
AnyIn(tags, s) == \E i \in DOMAIN tags : StrIn(tags[i], s)

----------------------------------------------------------------------------
(* Module constants *)

\* pyproject_toml_builder.py
SEMANTIC_RELEASE_MAJOR == << <<"[", "m", "a", "j", "o", "r", "]">> >>
SEMANTIC_RELEASE_MINOR == << <<"[", "m", "i", "n", "o", "r", "]">>,
                             <<"[", "f", "e", "a", "t", "u", "r", "e", "]">> >>
SEMANTIC_RELEASE_PATCH == << <<"[", "p", "a", "t", "c", "h", "]">>,
                             <<"[", "f", "i", "x", "]">> >>

\* setup_builder.py
cfg_SEMANTIC_RELEASE_MAJOR == << <<"[", "m", "a", "j", "o", "r", "]">> >>
cfg_SEMANTIC_RELEASE_MINOR == << <<"[", "m", "i", "n", "o", "r", "]">> >>
cfg_SEMANTIC_RELEASE_PATCH == << <<"[", "f", "i", "x", "]">>,
                                 <<"[", "p", "a", "t", "c", "h", "]">> >>

DEV_STATUS_PREALPHA_0_0_0 == "Development Status :: 2 - Pre-Alpha"
DEV_STATUS_ALPHA_0_0_Z == "Development Status :: 3 - Alpha"
DEV_STATUS_BETA_0_Y_Z == "Development Status :: 4 - Beta"
DEV_STATUS_PROD_X_Y_Z == "Development Status :: 5 - Production/Stable"

\* what a raise leaves in place of a status
RAISE_EXCEPTION == "Exception: Could not figure 'Development Status'"
RAISE_VALUEERROR == "ValueError: invalid literal for int()"

V_0_0_0 == <<"0", ".", "0", ".", "0">>
V_0_0_ == <<"0", ".", "0", ".">>
V_0_ == <<"0", ".">>

----------------------------------------------------------------------------
(* The development-status classifier of pyproject_toml_builder.py *)

pending_major_bump(msg) == AnyIn(SEMANTIC_RELEASE_MAJOR, msg)

pending_minor_bump_OnlyMinorTag(msg) ==
    StrIn(SEMANTIC_RELEASE_MINOR[1], msg)

pending_minor_bump(msg) == AnyIn(SEMANTIC_RELEASE_MINOR, msg)

pending_patch_bump_IgnoresFlag(pwt, msg) ==
    AnyIn(SEMANTIC_RELEASE_PATCH, msg)

pending_patch_bump(pwt, msg) == pwt \/ AnyIn(SEMANTIC_RELEASE_PATCH, msg)

\* the same function with the minor test ahead of the major test
get_development_status_MinorFirst(ver, pwt, msg) ==
    IF ver = V_0_0_0 THEN
        IF pending_minor_bump(msg) THEN DEV_STATUS_BETA_0_Y_Z
        ELSE IF pending_major_bump(msg) THEN DEV_STATUS_PROD_X_Y_Z
        ELSE IF pending_patch_bump(pwt, msg) THEN DEV_STATUS_ALPHA_0_0_Z
        ELSE DEV_STATUS_PREALPHA_0_0_0
    ELSE IF StartsWith(ver, V_0_0_) THEN
        IF pending_minor_bump(msg) THEN DEV_STATUS_BETA_0_Y_Z
        ELSE IF pending_major_bump(msg) THEN DEV_STATUS_PROD_X_Y_Z
        ELSE DEV_STATUS_ALPHA_0_0_Z
    ELSE IF StartsWith(ver, V_0_) THEN
        IF pending_major_bump(msg) THEN DEV_STATUS_PROD_X_Y_Z
        ELSE DEV_STATUS_BETA_0_Y_Z
    ELSE IF ~PyInt(SplitDotFirst(ver)).ok THEN RAISE_VALUEERROR
    ELSE IF PyInt(SplitDotFirst(ver)).val >= 1 THEN DEV_STATUS_PROD_X_Y_Z
    ELSE RAISE_EXCEPTION

\* the same function with `> 1` for `>= 1` in the last test
get_development_status_Above1(ver, pwt, msg) ==
    IF ver = V_0_0_0 THEN
        IF pending_major_bump(msg) THEN DEV_STATUS_PROD_X_Y_Z
        ELSE IF pending_minor_bump(msg) THEN DEV_STATUS_BETA_0_Y_Z
        ELSE IF pending_patch_bump(pwt, msg) THEN DEV_STATUS_ALPHA_0_0_Z
        ELSE DEV_STATUS_PREALPHA_0_0_0
    ELSE IF StartsWith(ver, V_0_0_) THEN
        IF pending_major_bump(msg) THEN DEV_STATUS_PROD_X_Y_Z
        ELSE IF pending_minor_bump(msg) THEN DEV_STATUS_BETA_0_Y_Z
        ELSE DEV_STATUS_ALPHA_0_0_Z
    ELSE IF StartsWith(ver, V_0_) THEN
        IF pending_major_bump(msg) THEN DEV_STATUS_PROD_X_Y_Z
        ELSE DEV_STATUS_BETA_0_Y_Z
    ELSE IF ~PyInt(SplitDotFirst(ver)).ok THEN RAISE_VALUEERROR
    ELSE IF PyInt(SplitDotFirst(ver)).val > 1 THEN DEV_STATUS_PROD_X_Y_Z
    ELSE RAISE_EXCEPTION

get_development_status(ver, pwt, msg) ==
    IF ver = V_0_0_0 THEN
        IF pending_major_bump(msg) THEN DEV_STATUS_PROD_X_Y_Z
        ELSE IF pending_minor_bump(msg) THEN DEV_STATUS_BETA_0_Y_Z
        ELSE IF pending_patch_bump(pwt, msg) THEN DEV_STATUS_ALPHA_0_0_Z
        ELSE DEV_STATUS_PREALPHA_0_0_0
    ELSE IF StartsWith(ver, V_0_0_) THEN
        IF pending_major_bump(msg) THEN DEV_STATUS_PROD_X_Y_Z
        ELSE IF pending_minor_bump(msg) THEN DEV_STATUS_BETA_0_Y_Z
        ELSE DEV_STATUS_ALPHA_0_0_Z
    ELSE IF StartsWith(ver, V_0_) THEN
        IF pending_major_bump(msg) THEN DEV_STATUS_PROD_X_Y_Z
        ELSE DEV_STATUS_BETA_0_Y_Z
    \* int(version.split(".")[0]) >= 1
    ELSE IF ~PyInt(SplitDotFirst(ver)).ok THEN RAISE_VALUEERROR
    ELSE IF PyInt(SplitDotFirst(ver)).val >= 1 THEN DEV_STATUS_PROD_X_Y_Z
    ELSE RAISE_EXCEPTION

----------------------------------------------------------------------------
(* The development-status classifier of setup_builder.py *)

\* BuilderSection.get_patch_without_tag: strtobool of the field's text
get_patch_without_tag(text) ==
    IF text \in {"True", "true", "yes", "y", "on", "t", "1"}
    THEN [ok |-> TRUE, val |-> TRUE]
    ELSE IF text \in {"False", "false", "no", "n", "off", "f", "0"}
    THEN [ok |-> TRUE, val |-> FALSE]
    ELSE [ok |-> FALSE, val |-> FALSE]

cfg_pending_major_bump(msg) == AnyIn(cfg_SEMANTIC_RELEASE_MAJOR, msg)

\* the minor markers of pyproject_toml_builder.py are looked for
cfg_pending_minor_bump_WithFeature(msg) == AnyIn(SEMANTIC_RELEASE_MINOR, msg)

cfg_pending_minor_bump(msg) == AnyIn(cfg_SEMANTIC_RELEASE_MINOR, msg)

cfg_pending_patch_bump(pwt, msg) == pwt \/ AnyIn(cfg_SEMANTIC_RELEASE_PATCH, msg)

FromFiles_get_development_status(ver, pwt_text, msg) ==
    LET pwt == get_patch_without_tag(pwt_text)
    IN  IF ~pwt.ok THEN "ValueError: invalid truth value"
        ELSE IF ver = V_0_0_0 THEN
            IF cfg_pending_major_bump(msg) THEN DEV_STATUS_PROD_X_Y_Z
            ELSE IF cfg_pending_minor_bump(msg) THEN DEV_STATUS_BETA_0_Y_Z
            ELSE IF cfg_pending_patch_bump(pwt.val, msg) THEN DEV_STATUS_ALPHA_0_0_Z
            ELSE DEV_STATUS_PREALPHA_0_0_0
        ELSE IF StartsWith(ver, V_0_0_) THEN
            IF cfg_pending_major_bump(msg) THEN DEV_STATUS_PROD_X_Y_Z
            ELSE IF cfg_pending_minor_bump(msg) THEN DEV_STATUS_BETA_0_Y_Z
            ELSE DEV_STATUS_ALPHA_0_0_Z
        ELSE IF StartsWith(ver, V_0_) THEN
            IF cfg_pending_major_bump(msg) THEN DEV_STATUS_PROD_X_Y_Z
            ELSE DEV_STATUS_BETA_0_Y_Z
        ELSE IF ~PyInt(SplitDotFirst(ver)).ok THEN RAISE_VALUEERROR
        ELSE IF PyInt(SplitDotFirst(ver)).val >= 1 THEN DEV_STATUS_PROD_X_Y_Z
        ELSE RAISE_EXCEPTION

----------------------------------------------------------------------------
(* Inputs of the classifier *)

RECURSIVE Concat(_)
Concat(parts) ==
    IF parts = <<>> THEN <<>> ELSE Head(parts) \o Concat(Tail(parts))

RECURSIVE JoinDot(_)
JoinDot(parts) ==
    IF Len(parts) = 1 THEN parts[1]
    ELSE parts[1] \o <<".">> \o JoinDot(Tail(parts))

Tuples(S, lo, hi) == UNION {[1..n -> S] : n \in lo..hi}

Chunks ==
    { SEMANTIC_RELEASE_MAJOR[1],
      SEMANTIC_RELEASE_MINOR[1], SEMANTIC_RELEASE_MINOR[2],
      SEMANTIC_RELEASE_PATCH[1], SEMANTIC_RELEASE_PATCH[2],
      <<"[", "M", "A", "J", "O", "R", "]">>,
      <<"w", "i", "p", " ">> }

Messages == {Concat(parts) : parts \in Tuples(Chunks, 0, MaxParts)}

Components ==
    {PyStr(n) : n \in 0..MaxNum} \cup {<<"-", "1">>, <<"Z">>}

Versions == {JoinDot(cs) : cs \in Tuples(Components, 1, 3)}

PythonDefaults ==
    /\ python_min = NO_RELEASE /\ python_max = NO_RELEASE /\ latest_py3 = NO_RELEASE
    /\ requires_python = NO_STRING /\ classifiers = NO_LIST

MetaDefaults ==
    /\ pypi_name = "" /\ author = "" /\ author_email = ""
    /\ keywords = <<>> /\ base_keywords = <<>>
    /\ package_dirs = <<>> /\ exclude_dirs = <<>>
    /\ packages = <<>> /\ readme = ""

FileDefaults == error = "" /\ cfg_writes = 0 /\ readme_writes = 0

RepoDefaults == trees = {} /\ inits = {}

DocDefaults ==
    /\ auto_mypy_option = FALSE
    /\ doc = <<>> /\ doc_before = <<>> /\ first_out = <<>> /\ runs = 0

ReadmeDefaults == readme_in = <<>> /\ readme_out = <<>> /\ circleci = FALSE

DepDefaults == dep_file = <<>> /\ dep_doc = <<>> /\ dep_in = <<>>

\* the config file is as the run finds it, and has not been opened
AS_FOUND == "as found"
MERGED == "merged"
ANNOTATED == "merged, headers annotated"

ArgDefaults == argv = <<>> /\ args = <<>> /\ cfg_reads = 0 /\ cfg_disk = AS_FOUND

InitClassify ==
    /\ builder \in {"toml", "ini"}
    /\ pc = "classify"
    /\ version \in Versions
    /\ commit_message \in Messages
    /\ patch_without_tag \in (IF builder = "toml" THEN BOOLEAN ELSE {"True", "False"})
    /\ development_status = NONE
    /\ PythonDefaults /\ MetaDefaults /\ FileDefaults
    /\ RepoDefaults /\ DocDefaults /\ ReadmeDefaults /\ DepDefaults /\ ArgDefaults

\* get_development_status(version, patch_without_tag, commit_message)
classify_toml ==
    /\ pc = "classify" /\ builder = "toml"
    /\ development_status' =
           get_development_status(version, patch_without_tag, commit_message)
    /\ pc' = "classified"
    /\ UNCHANGED <<builder, repoVars, docVars, readmeVars, depVars, argVars, cfg_reads, cfg_disk, version, commit_message, patch_without_tag,
                   pythonVars, metaVars, foundVars, fileVars>>

\* FromFiles._get_development_status(commit_message)
classify_ini ==
    /\ pc = "classify" /\ builder = "ini"
    /\ development_status' =
           FromFiles_get_development_status(version, patch_without_tag, commit_message)
    /\ pc' = "classified"
    /\ UNCHANGED <<builder, repoVars, docVars, readmeVars, depVars, argVars, cfg_reads, cfg_disk, version, commit_message, patch_without_tag,
                   pythonVars, metaVars, foundVars, fileVars>>

NextClassify == classify_toml \/ classify_ini

SpecClassify == InitClassify /\ [][NextClassify]_vars

----------------------------------------------------------------------------
(* GHAInput of pyproject_toml_builder.py *)

\* the release manifest could not be fetched
CONNECTION_ERROR == <<"ConnectionError">>

PY_CLASSIFIER_PREFIX == <<"Programming Language :: Python :: 3.">>

\* dataclass __init__: python_max takes default_factory's value when not given
GHAInput_python_max(pmax, latest) == IF pmax = NO_RELEASE THEN latest ELSE pmax

\* the major test with `> 4` for `>= 4`
GHAInput_post_init_Accepts4(name, kws, auth, email, pmin, pmax) ==
    IF name # "" /\ (kws = <<>> \/ auth = "" \/ email = "")
    THEN "Exception: 'keywords', 'author', and 'author_email' must be provided"
    ELSE IF pmin[1] < 3 THEN "Exception: python_min does not work for python <3"
    ELSE IF pmin[1] > 4 THEN "Exception: python_min does not work for python 4+"
    ELSE IF pmax[1] < 3 THEN "Exception: python_max does not work for python <3"
    ELSE IF pmax[1] > 4 THEN "Exception: python_max does not work for python 4+"
    ELSE ""

\* the PyPI test without author_email
GHAInput_post_init_NoEmailTest(name, kws, auth, email, pmin, pmax) ==
    IF name # "" /\ (kws = <<>> \/ auth = "")
    THEN "Exception: 'keywords', 'author', and 'author_email' must be provided"
    ELSE IF pmin[1] < 3 THEN "Exception: python_min does not work for python <3"
    ELSE IF pmin[1] >= 4 THEN "Exception: python_min does not work for python 4+"
    ELSE IF pmax[1] < 3 THEN "Exception: python_max does not work for python <3"
    ELSE IF pmax[1] >= 4 THEN "Exception: python_max does not work for python 4+"
    ELSE ""

\* GHAInput.__post_init__: "" or the exception raised
GHAInput_post_init(name, kws, auth, email, pmin, pmax) ==
    IF name # "" /\ (kws = <<>> \/ auth = "" \/ email = "")
    THEN "Exception: 'keywords', 'author', and 'author_email' must be provided"
    ELSE IF pmin[1] < 3 THEN "Exception: python_min does not work for python <3"
    ELSE IF pmin[1] >= 4 THEN "Exception: python_min does not work for python 4+"
    ELSE IF pmax[1] < 3 THEN "Exception: python_max does not work for python <3"
    ELSE IF pmax[1] >= 4 THEN "Exception: python_max does not work for python 4+"
    ELSE ""

\* the upper bound without its + 1
get_requires_python_NoPlusOne(pmin, pmax) ==
    <<">", "=">> \o PyStr(pmin[1]) \o <<".">> \o PyStr(pmin[2])
        \o <<",", " ", "<">> \o PyStr(pmax[1]) \o <<".">> \o PyStr(pmax[2])

\* GHAInput.get_requires_python
get_requires_python(pmin, pmax) ==
    <<">", "=">> \o PyStr(pmin[1]) \o <<".">> \o PyStr(pmin[2])
        \o <<",", " ", "<">> \o PyStr(pmax[1]) \o <<".">> \o PyStr(pmax[2] + 1)

\* GHAInput.python_classifiers: range(python_min[1], python_max[1] + 1)
python_classifiers(pmin, pmax) ==
    [i \in 1..(pmax[2] + 1 - pmin[2]) |-> PY_CLASSIFIER_PREFIX \o PyStr(pmin[2] + i - 1)]

----------------------------------------------------------------------------
(* BuilderSection of setup_builder.py *)

\* BuilderSection.__post_init__: "" or the exception raised
BuilderSection_post_init(name, auth, email) ==
    IF name # "" /\ (auth = "" \/ email = "")
    THEN "Exception: 'author' and 'author_email' must be provided"
    ELSE ""

QUOTE == "\""

\* word.strip('"'), word.lstrip('"'), word.rstrip('"')
RECURSIVE LStripQuote(_)
LStripQuote(w) ==
    IF w # <<>> /\ w[1] = QUOTE THEN LStripQuote(Tail(w)) ELSE w

RECURSIVE RStripQuote(_)
RStripQuote(w) ==
    IF w # <<>> /\ w[Len(w)] = QUOTE THEN RStripQuote(SubSeq(w, 1, Len(w) - 1)) ELSE w

StripQuote(w) == RStripQuote(LStripQuote(w))

\* " ".join(phrase)
RECURSIVE JoinSpace(_)
JoinSpace(phrase) ==
    IF phrase = <<>> THEN <<>>
    ELSE IF Len(phrase) = 1 THEN phrase[1]
    ELSE phrase[1] \o <<" ">> \o JoinSpace(Tail(phrase))

\* the loop of keywords_list over the words of keywords_spaced.strip().split()
RECURSIVE KeywordWords(_, _, _)
KeywordWords(words, kws, phrase) ==
    IF words = <<>> THEN kws
    ELSE LET word == Head(words)
             starts == word # <<>> /\ word[1] = QUOTE
             ends == word # <<>> /\ word[Len(word)] = QUOTE
         IN  IF starts /\ ends
             THEN KeywordWords(Tail(words), Append(kws, StripQuote(word)), phrase)
             ELSE IF starts
             THEN KeywordWords(Tail(words), kws, <<LStripQuote(word)>>)
             ELSE IF ends
             THEN KeywordWords(Tail(words),
                               Append(kws, JoinSpace(Append(phrase, RStripQuote(word)))),
                               <<>>)
             ELSE IF phrase # <<>>
             THEN KeywordWords(Tail(words), kws, Append(phrase, word))
             ELSE KeywordWords(Tail(words), Append(kws, word), phrase)

\* BuilderSection.keywords_list(base_keywords)
keywords_list(words, base, name) ==
    LET kws == KeywordWords(words, <<>>, <<>>) \o base
    IN  IF kws = <<>> /\ name # ""
        THEN [err |-> "Exception: keywords must be provided", val |-> <<>>]
        ELSE [err |-> "", val |-> kws]

\* re.match(r"(?P<maj>\d+)\.(?P<min>\d+)$", py_release): digits, ".", digits
ReleaseMatch(text) ==
    LET maj == SplitDotFirst(text)
        rest == SubSeq(text, Len(maj) + 2, Len(text))
    IN  IF /\ Len(text) > Len(maj)
           /\ maj # <<>> /\ \A i \in 1..Len(maj) : IsDigit(maj[i])
           /\ rest # <<>> /\ \A i \in 1..Len(rest) : IsDigit(rest[i])
        THEN [ok |-> TRUE, maj |-> DigitsVal(maj), min |-> DigitsVal(rest)]
        ELSE [ok |-> FALSE, maj |-> 0, min |-> 0]

\* _python3_min_max.get_py3_minor
get_py3_minor(py_release, attr_name) ==
    LET m == ReleaseMatch(py_release)
    IN  IF ~m.ok
        THEN [err |-> "Exception: " \o attr_name \o " is not a valid release", minor |-> 0]
        ELSE IF m.maj < 3
        THEN [err |-> "Exception: " \o attr_name \o " does not work for python <3", minor |-> 0]
        ELSE IF m.maj >= 4
        THEN [err |-> "Exception: " \o attr_name \o " does not work for python 4+", minor |-> 0]
        ELSE [err |-> "", minor |-> m.min]

\* sorted() of two (major, minor) tuples
SortedPair(a, b) ==
    IF a[1] < b[1] \/ (a[1] = b[1] /\ a[2] <= b[2]) THEN <<a, b>> ELSE <<b, a>>

\* BuilderSection._python3_min_max
BuilderSection_python3_min_max(pmin, pmax, latest) ==
    LET lo == get_py3_minor(pmin, "python_min")
        hi == get_py3_minor(pmax, "python_max")
    IN  IF lo.err # "" THEN [err |-> lo.err, val |-> <<>>]
        ELSE IF pmax = NO_RELEASE
        THEN IF latest = CONNECTION_ERROR
             THEN [err |-> "ConnectionError", val |-> <<>>]
             ELSE [err |-> "", val |-> SortedPair(<<3, lo.minor>>, latest)]
        ELSE IF hi.err # "" THEN [err |-> hi.err, val |-> <<>>]
        ELSE [err |-> "", val |-> SortedPair(<<3, lo.minor>>, <<3, hi.minor>>)]

\* BuilderSection.python_requires, given _python3_min_max()'s value
BuilderSection_python_requires(mm) ==
    <<">", "=">> \o PyStr(mm[1][1]) \o <<".">> \o PyStr(mm[1][2])
        \o <<",", " ", "<">> \o PyStr(mm[2][1]) \o <<".">> \o PyStr(mm[2][2] + 1)

\* BuilderSection.python_classifiers, given _python3_min_max()'s value
BuilderSection_python_classifiers(mm) ==
    [i \in 1..(mm[2][2] + 1 - mm[1][2]) |-> PY_CLASSIFIER_PREFIX \o PyStr(mm[1][2] + i - 1)]

----------------------------------------------------------------------------
(* The python range, computed from python_min and python_max *)

\* --python-min / --python-max as coerce_python_version leaves them
PyReleases == {<<3, n>> : n \in 0..MaxMinor} \cup {<<2, 7>>, <<4, 0>>}

\* what the manifest of stable releases may answer
LatestReleases ==
    {<<3, n>> : n \in (MaxMinor - 1)..(MaxMinor + 1)} \cup {<<4, 0>>, CONNECTION_ERROR}

\* the texts of python_min / python_max in [wipac:cicd_setup_builder]
ReleaseText(r) == PyStr(r[1]) \o <<".">> \o PyStr(r[2])
PyReleaseTexts == {ReleaseText(r) : r \in PyReleases} \cup {<<"3">>, <<"3", ".", "x">>}

InitPython ==
    /\ builder \in {"toml", "ini"}
    /\ pc = "construct"
    /\ python_min \in (IF builder = "toml" THEN PyReleases ELSE PyReleaseTexts)
    /\ python_max \in (IF builder = "toml" THEN PyReleases ELSE PyReleaseTexts)
                          \cup {NO_RELEASE}
    /\ latest_py3 \in (IF python_max = NO_RELEASE THEN LatestReleases ELSE {NO_RELEASE})
    /\ requires_python = NO_STRING /\ classifiers = NO_LIST
    /\ version = <<>> /\ commit_message = <<>> /\ patch_without_tag = TRUE
    /\ development_status = NONE
    /\ MetaDefaults /\ FileDefaults
    /\ RepoDefaults /\ DocDefaults /\ ReadmeDefaults /\ DepDefaults /\ ArgDefaults

\* GHAInput(...): the dataclass __init__ and __post_init__
GHAInput_init ==
    /\ pc = "construct" /\ builder = "toml"
    /\ LET pmax == GHAInput_python_max(python_max, latest_py3)
       IN  IF pmax = CONNECTION_ERROR
           THEN /\ error' = "ConnectionError" /\ pc' = "raised"
                /\ UNCHANGED python_max
           ELSE /\ python_max' = pmax
                /\ error' = GHAInput_post_init(pypi_name, keywords, author,
                                               author_email, python_min, pmax)
                /\ pc' = IF error' = "" THEN "constructed" ELSE "raised"
    /\ UNCHANGED <<builder, repoVars, docVars, readmeVars, depVars, argVars, cfg_reads, cfg_disk, classifyVars, python_min, latest_py3, requires_python,
                   classifiers, metaVars, foundVars, cfg_writes, readme_writes>>

\* gha_input.get_requires_python()
GHAInput_get_requires_python ==
    /\ pc = "constructed" /\ builder = "toml" /\ requires_python = NO_STRING
    /\ requires_python' = get_requires_python(python_min, python_max)
    /\ UNCHANGED <<builder, repoVars, docVars, readmeVars, depVars, argVars, cfg_reads, cfg_disk, pc, classifyVars, python_min, python_max, latest_py3,
                   classifiers, metaVars, foundVars, fileVars>>

\* gha_input.python_classifiers()
GHAInput_python_classifiers ==
    /\ pc = "constructed" /\ builder = "toml" /\ classifiers = NO_LIST
    /\ classifiers' = python_classifiers(python_min, python_max)
    /\ UNCHANGED <<builder, repoVars, docVars, readmeVars, depVars, argVars, cfg_reads, cfg_disk, pc, classifyVars, python_min, python_max, latest_py3,
                   requires_python, metaVars, foundVars, fileVars>>

\* BuilderSection(**dict(cfg[BUILDER_SECTION_NAME])): the dataclass __init__
\* and __post_init__
BuilderSection_init ==
    /\ pc = "construct" /\ builder = "ini"
    /\ error' = BuilderSection_post_init(pypi_name, author, author_email)
    /\ pc' = IF error' = "" THEN "constructed" ELSE "raised"
    /\ UNCHANGED <<builder, repoVars, docVars, readmeVars, depVars, argVars, cfg_reads, cfg_disk, classifyVars, pythonVars, metaVars, foundVars,
                   cfg_writes, readme_writes>>

\* bsec.python_requires()
BuilderSection_get_python_requires ==
    /\ pc = "constructed" /\ builder = "ini" /\ requires_python = NO_STRING
    /\ LET mm == BuilderSection_python3_min_max(python_min, python_max, latest_py3)
       IN  IF mm.err # ""
           THEN /\ error' = mm.err /\ pc' = "raised"
                /\ UNCHANGED requires_python
           ELSE /\ requires_python' = BuilderSection_python_requires(mm.val)
                /\ UNCHANGED <<error, pc>>
    /\ UNCHANGED <<builder, repoVars, docVars, readmeVars, depVars, argVars, cfg_reads, cfg_disk, classifyVars, python_min, python_max, latest_py3,
                   classifiers, metaVars, foundVars, cfg_writes, readme_writes>>

\* bsec.python_classifiers()
BuilderSection_get_python_classifiers ==
    /\ pc = "constructed" /\ builder = "ini" /\ classifiers = NO_LIST
    /\ LET mm == BuilderSection_python3_min_max(python_min, python_max, latest_py3)
       IN  IF mm.err # ""
           THEN /\ error' = mm.err /\ pc' = "raised"
                /\ UNCHANGED classifiers
           ELSE /\ classifiers' = BuilderSection_python_classifiers(mm.val)
                /\ UNCHANGED <<error, pc>>
    /\ UNCHANGED <<builder, repoVars, docVars, readmeVars, depVars, argVars, cfg_reads, cfg_disk, classifyVars, python_min, python_max, latest_py3,
                   requires_python, metaVars, foundVars, cfg_writes, readme_writes>>

NextPython ==
    \/ GHAInput_init
    \/ GHAInput_get_requires_python
    \/ GHAInput_python_classifiers
    \/ BuilderSection_init
    \/ BuilderSection_get_python_requires
    \/ BuilderSection_get_python_classifiers

SpecPython == InitPython /\ [][NextPython]_vars

----------------------------------------------------------------------------
(* What the scripts read from the repository *)

\* names of the sub-directories of the root, in iterdir() order, and whether
\* each holds an __init__.py
Dir(n, i) == [name |-> n, init |-> i]

Names(dirs) == [i \in 1..Len(dirs) |-> dirs[i].name]

HasInit(d) == d.init

\* find_packages.iterate_dirnames(root_dir, dirs_exclude), as list() consumes
\* it: with a non-empty dirs_exclude, d.split().split("/") is applied to a
\* list and raises
iterate_dirnames(tree, dirs_exclude) ==
    IF dirs_exclude # <<>>
    THEN [err |-> "AttributeError: 'list' object has no attribute 'split'",
          val |-> <<>>]
    ELSE [err |-> "", val |-> Names(SelectSeq(tree, HasInit))]

\* pyproject_toml_builder.FromFiles._get_package_paths
FromFiles_get_package_paths(tree, dirs_exclude, pkg_dirs) ==
    LET found == iterate_dirnames(tree, dirs_exclude)
        available_pkgs == found.val
        not_ins == SelectSeq(pkg_dirs,
                       LAMBDA q : \A i \in 1..Len(available_pkgs) : available_pkgs[i] # q)
    IN  IF found.err # "" THEN [err |-> found.err, val |-> <<>>]
        ELSE IF available_pkgs = <<>>
        THEN [err |-> "Exception: No package found", val |-> <<>>]
        ELSE IF pkg_dirs # <<>>
        THEN IF not_ins # <<>>
             THEN [err |-> "Exception: Package directory not found", val |-> <<>>]
             ELSE [err |-> "", val |-> pkg_dirs]
        ELSE IF Len(available_pkgs) > 1
        THEN [err |-> "Exception: More than one package found", val |-> <<>>]
        ELSE [err |-> "", val |-> <<available_pkgs[1]>>]

\* pyproject_toml_builder.FromFiles.__init__
FromFiles_init(root_exists, tree, rd, dirs_exclude, pkg_dirs) ==
    LET paths == FromFiles_get_package_paths(tree, dirs_exclude, pkg_dirs)
    IN  IF ~root_exists THEN [err |-> "NotADirectoryError", packages |-> <<>>]
        ELSE IF paths.err # "" THEN [err |-> paths.err, packages |-> <<>>]
        ELSE IF rd = "" THEN [err |-> "FileNotFoundError: No README file found",
                              packages |-> <<>>]
        ELSE [err |-> "", packages |-> paths.val]

\* \w+ of the regular expression in get_init_version
IsWord(c) ==
    c # <<>> /\ \A i \in 1..Len(c) : IsDigit(c[i]) \/ c[i] \in {"Z", "Y", "X", "_"}

\* the components of the text between the quotes, split at "."
RECURSIVE DotParts(_)
DotParts(t) ==
    IF \E i \in 1..Len(t) : t[i] = "."
    THEN <<SplitDotFirst(t)>> \o DotParts(SubSeq(t, Len(SplitDotFirst(t)) + 2, Len(t)))
    ELSE <<t>>

\* get_dunder_version_inits.get_init_version: what the __init__.py declares
\* is absent, a quoted text, or a call
get_init_version(decl) ==
    IF decl.kind = "absent" THEN [err |-> "", ver |-> NO_STRING]
    ELSE IF /\ decl.kind = "quoted"
            /\ Len(DotParts(decl.ver)) = 3
            /\ \A i \in 1..3 : IsWord(DotParts(decl.ver)[i])
    THEN [err |-> "", ver |-> decl.ver]
    ELSE [err |-> "Exception: '__version__' must be in the semantic version format",
          ver |-> NO_STRING]

\* the versions are read and none is compared with another
get_dunder_version_inits_NoCompare(decls, version_from_toml) ==
    LET got == [i \in 1..Len(decls) |-> get_init_version(decls[i])]
    IN  IF \E i \in 1..Len(decls) : got[i].err # ""
        THEN got[CHOOSE i \in 1..Len(decls) : got[i].err # ""].err
        ELSE ""

\* FromFiles.get_dunder_version_inits(version_from_toml): "" or the exception
get_dunder_version_inits(decls, version_from_toml) ==
    LET got == [i \in 1..Len(decls) |-> get_init_version(decls[i])]
        init_versions == {got[i].ver : i \in {j \in 1..Len(decls) : got[j].ver # NO_STRING}}
    IN  IF \E i \in 1..Len(decls) : got[i].err # ""
        THEN got[CHOOSE i \in 1..Len(decls) :
                     got[i].err # "" /\ \A j \in 1..(i - 1) : got[j].err = ""].err
        ELSE IF init_versions = {} THEN ""
        ELSE IF Cardinality(init_versions) # 1
        THEN "Exception: Version mismatch between packages"
        ELSE IF {version_from_toml} # init_versions
        THEN "Exception: Version mismatch between package(s) and pyproject.toml"
        ELSE ""

\* setup_builder.FromFiles._get_package_paths._get_packages
cfg_get_packages(tree, dirs_exclude) ==
    Names(SelectSeq(tree,
              LAMBDA d : d.init /\ \A i \in 1..Len(dirs_exclude) : dirs_exclude[i] # d.name))

\* setup_builder.FromFiles._get_package_paths
cfg_FromFiles_get_package_paths(tree, dirs_exclude, pkg_dirs) ==
    LET available_pkgs == cfg_get_packages(tree, dirs_exclude)
        not_ins == SelectSeq(pkg_dirs,
                       LAMBDA q : \A i \in 1..Len(available_pkgs) : available_pkgs[i] # q)
    IN  IF available_pkgs = <<>>
        THEN [err |-> "Exception: No package found", val |-> <<>>]
        ELSE IF pkg_dirs # <<>>
        THEN IF not_ins # <<>>
             THEN [err |-> "Exception: Package directory not found", val |-> <<>>]
             ELSE [err |-> "", val |-> pkg_dirs]
        ELSE IF Len(available_pkgs) > 1
        THEN [err |-> "Exception: More than one package found", val |-> <<>>]
        ELSE [err |-> "", val |-> <<available_pkgs[1]>>]

\* setup_builder.FromFiles._get_version.version: the text between the first
\* pair of quotes after the last "="
cfg_version(decl) ==
    IF decl.kind = "absent"
    THEN [err |-> "Exception: Cannot find __version__", ver |-> NO_STRING]
    ELSE IF decl.kind = "quoted" THEN [err |-> "", ver |-> decl.ver]
    ELSE [err |-> "IndexError: list index out of range", ver |-> NO_STRING]

\* setup_builder.FromFiles._get_version
cfg_get_version(decls) ==
    LET got == [i \in 1..Len(decls) |-> cfg_version(decls[i])]
    IN  IF \E i \in 1..Len(decls) : got[i].err # ""
        THEN [err |-> got[CHOOSE i \in 1..Len(decls) :
                              got[i].err # "" /\ \A j \in 1..(i - 1) : got[j].err = ""].err,
              ver |-> NO_STRING]
        ELSE IF Cardinality({got[i].ver : i \in 1..Len(decls)}) # 1
        THEN [err |-> "Exception: Version mismatch between packages", ver |-> NO_STRING]
        ELSE [err |-> "", ver |-> got[1].ver]

\* setup_builder.FromFiles.__init__
cfg_FromFiles_init(root_exists, tree, decls_of, rd, dirs_exclude, pkg_dirs, pwt, msg) ==
    LET paths == cfg_FromFiles_get_package_paths(tree, dirs_exclude, pkg_dirs)
        ver == cfg_get_version([i \in 1..Len(paths.val) |-> decls_of[paths.val[i]]])
        status == FromFiles_get_development_status(ver.ver, pwt, msg)
        none == [packages |-> <<>>, version |-> NO_STRING, status |-> NONE]
    IN  IF ~root_exists THEN [err |-> "NotADirectoryError"] @@ none
        ELSE IF paths.err # "" THEN [err |-> paths.err] @@ none
        ELSE IF ver.err # "" THEN [err |-> ver.err] @@ none
        ELSE IF rd = "" THEN [err |-> "FileNotFoundError: No README file found"] @@ none
        ELSE IF status \notin {DEV_STATUS_PREALPHA_0_0_0, DEV_STATUS_ALPHA_0_0_Z,
                               DEV_STATUS_BETA_0_Y_Z, DEV_STATUS_PROD_X_Y_Z}
        THEN [err |-> status] @@ none
        ELSE [err |-> "", packages |-> paths.val, version |-> ver.ver, status |-> status]

----------------------------------------------------------------------------
(* One run of either script: inputs, reads, checks, then the writes *)

V_1_2_3 == <<"1", ".", "2", ".", "3">>
V_Z_2_3 == <<"Z", ".", "2", ".", "3">>

\* what an __init__.py declares as __version__
Decl(k, v) == [kind |-> k, ver |-> v]
Decls ==
    {Decl("absent", <<>>), Decl("call", <<>>)}
        \cup {Decl("quoted", v) : v \in {V_1_2_3, V_Z_2_3}}

\* the sub-directories a root may hold
Trees ==
    { <<>>,
      <<Dir("a", FALSE)>>,
      <<Dir("a", TRUE)>>,
      <<Dir("a", TRUE), Dir("b", TRUE)>>,
      <<Dir("a", TRUE), Dir("tests", TRUE)>> }

\* the suffix of the README found in the root, "" when there is none
ReadmeSuffixes == {"", ".md", ".rst"}

RunMessages == {<<"w", "i", "p">>, SEMANTIC_RELEASE_MAJOR[1]}
RunReleases == {<<2, 7>>, <<3, 6>>, <<4, 0>>}
RunLatest == {<<3, 11>>, <<4, 0>>, CONNECTION_ERROR}
RunPackageDirs == {<<>>, <<"a", "b">>, <<"c">>}
RunExcludeDirs == {<<>>, <<"tests">>}
KEYWORD == <<"3", "D">>
\* keywords_spaced.strip().split(): nothing, a word, a quoted phrase, and a
\* phrase whose closing quote is missing
RunKeywordWords ==
    { <<>>,
      <<KEYWORD>>,
      << <<QUOTE, "3">>, <<"D", QUOTE>> >>,
      << <<QUOTE, "3">> >> }

Init ==
    /\ builder \in {"toml", "ini"}
    /\ pc = IF builder = "toml" THEN "construct" ELSE "read"
    /\ commit_message \in RunMessages
    /\ patch_without_tag = IF builder = "toml" THEN TRUE ELSE "True"
    /\ version = NO_STRING /\ development_status = NONE
    /\ python_min \in (IF builder = "toml" THEN RunReleases
                       ELSE {ReleaseText(r) : r \in RunReleases})
    /\ python_max \in (IF builder = "toml" THEN RunReleases
                       ELSE {ReleaseText(r) : r \in RunReleases}) \cup {NO_RELEASE}
    /\ latest_py3 \in (IF python_max = NO_RELEASE THEN RunLatest ELSE {NO_RELEASE})
    /\ requires_python = NO_STRING /\ classifiers = NO_LIST
    /\ pypi_name \in {"", "wipac-pkg"}
    /\ author \in {"", "A"}
    /\ author_email \in {"", "a@b"}
    /\ keywords \in (IF builder = "toml" THEN {<<>>, <<KEYWORD>>} ELSE RunKeywordWords)
    /\ base_keywords \in (IF builder = "toml" THEN {<<>>} ELSE {<<>>, <<KEYWORD>>})
    /\ package_dirs \in RunPackageDirs
    /\ exclude_dirs \in RunExcludeDirs
    /\ packages = <<>> /\ readme = ""
    /\ FileDefaults
    /\ trees = Trees /\ inits = [{"a", "b"} -> Decls]
    /\ DocDefaults /\ ReadmeDefaults /\ DepDefaults /\ ArgDefaults

\* write_toml: if toml_file.exists(): toml_dict = tomlkit.load(f), else an
\* empty TOMLDocument
write_toml_load ==
    /\ pc = "constructed" /\ builder = "toml"
    /\ \E exists \in BOOLEAN : cfg_reads' = IF exists THEN cfg_reads + 1 ELSE cfg_reads
    /\ pc' = "loaded"
    /\ UNCHANGED <<builder, repoVars, docVars, readmeVars, depVars, argVars, cfg_disk,
                   classifyVars, pythonVars, metaVars, foundVars, fileVars>>

\* PyProjectTomlBuilder.__init__: ffile = FromFiles(root_path, gha_input, ...)
FromFiles_read ==
    /\ pc = "loaded" /\ builder = "toml"
    /\ \E root_exists \in BOOLEAN, tree \in trees, rd \in ReadmeSuffixes :
           LET ffile == FromFiles_init(root_exists, tree, rd, exclude_dirs, package_dirs)
           IN  IF ffile.err # ""
               THEN /\ error' = ffile.err /\ pc' = "raised"
                    /\ UNCHANGED foundVars
               ELSE /\ packages' = ffile.packages /\ readme' = rd
                    /\ pc' = "files" /\ UNCHANGED error
    /\ UNCHANGED <<builder, repoVars, docVars, readmeVars, depVars, argVars, cfg_reads, cfg_disk, classifyVars, pythonVars, metaVars, cfg_writes, readme_writes>>

\* PyProjectTomlBuilder.__init__: gh_api = GitHubAPI(github_full_repo, token)
GitHubAPI_init ==
    /\ pc = "files" /\ builder = "toml"
    /\ \E ok \in BOOLEAN :
           IF ok THEN pc' = "github" /\ UNCHANGED error
           ELSE error' = "HTTPError" /\ pc' = "raised"
    /\ UNCHANGED <<builder, repoVars, docVars, readmeVars, depVars, argVars, cfg_reads, cfg_disk, classifyVars, pythonVars, metaVars, foundVars,
                   cfg_writes, readme_writes>>

\* PyProjectTomlBuilder._validate_repo_initial_state(toml_dict), on the
\* document write_toml loaded (an empty one when the file does not exist)
validate_repo_initial_state ==
    /\ pc = "github" /\ builder = "toml"
    /\ \E v \in {V_0_0_0, V_1_2_3, V_Z_2_3, NO_STRING} :
           IF v = NO_STRING
           THEN /\ error' = "Exception: pyproject.toml must have 'project.version'"
                /\ pc' = "raised" /\ UNCHANGED version
           ELSE version' = v /\ pc' = "validated" /\ UNCHANGED error
    /\ UNCHANGED <<builder, repoVars, docVars, readmeVars, depVars, argVars, cfg_reads, cfg_disk, commit_message, patch_without_tag, development_status,
                   pythonVars, metaVars, foundVars, cfg_writes, readme_writes>>

\* PyProjectTomlBuilder.__init__: the [project] table
build_project ==
    /\ pc = "validated" /\ builder = "toml"
    /\ IF pypi_name = ""
       THEN /\ requires_python' = get_requires_python(python_min, python_max)
            /\ pc' = "project"
            /\ UNCHANGED <<development_status, classifiers, error>>
       ELSE LET status == get_development_status(version, patch_without_tag, commit_message)
            IN  IF status \in {RAISE_EXCEPTION, RAISE_VALUEERROR}
                THEN /\ error' = status /\ pc' = "raised"
                     /\ UNCHANGED <<development_status, classifiers, requires_python>>
                ELSE /\ development_status' = status
                     /\ classifiers' = python_classifiers(python_min, python_max)
                     /\ requires_python' = get_requires_python(python_min, python_max)
                     /\ pc' = "project" /\ UNCHANGED error
    /\ UNCHANGED <<builder, repoVars, docVars, readmeVars, depVars, argVars, cfg_reads, cfg_disk, version, commit_message, patch_without_tag, python_min,
                   python_max, latest_py3, metaVars, foundVars, cfg_writes, readme_writes>>

\* the document is dumped before the packages' versions are compared
build_semantic_release_DumpsFirst ==
    /\ pc = "project" /\ builder = "toml"
    /\ cfg_writes' = cfg_writes + 1
    /\ \E decls_of \in inits :
           /\ error' = get_dunder_version_inits(
                            [i \in 1..Len(packages) |-> decls_of[packages[i]]], version)
           /\ pc' = IF error' = "" THEN "written" ELSE "raised"
    /\ UNCHANGED <<builder, repoVars, docVars, readmeVars, depVars, argVars, cfg_reads, cfg_disk, classifyVars, pythonVars, metaVars, foundVars, readme_writes>>

\* PyProjectTomlBuilder.__init__: [tool.semantic_release], which reads every
\* package's __init__.py, and the tables after it up to the README manager
build_semantic_release ==
    /\ pc = "project" /\ builder = "toml"
    /\ \E decls_of \in inits :
           /\ error' = get_dunder_version_inits(
                            [i \in 1..Len(packages) |-> decls_of[packages[i]]], version)
           /\ pc' = IF error' = "" THEN "built" ELSE "raised"
    /\ UNCHANGED <<builder, repoVars, docVars, readmeVars, depVars, argVars, cfg_reads, cfg_disk, classifyVars, pythonVars, metaVars, foundVars,
                   cfg_writes, readme_writes>>

\* write_toml: with open(toml_file, "w") as f: tomlkit.dump(toml_dict, f)
write_toml_dump ==
    /\ pc = "built" /\ builder = "toml"
    /\ cfg_writes' = cfg_writes + 1
    /\ cfg_disk' = MERGED
    /\ pc' = "written"
    /\ UNCHANGED <<builder, repoVars, docVars, readmeVars, depVars, argVars, cfg_reads, classifyVars, pythonVars, metaVars, foundVars,
                   error, readme_writes>>

\* work: if readme_mgr: write the lines to readme_mgr.readme_path
work_readme ==
    /\ pc = "written" /\ builder = "toml"
    /\ readme_writes' = IF readme = ".md" THEN readme_writes + 1 ELSE readme_writes
    /\ pc' = "done"
    /\ UNCHANGED <<builder, repoVars, docVars, readmeVars, depVars, argVars, cfg_reads, cfg_disk, classifyVars, pythonVars, metaVars, foundVars,
                   error, cfg_writes>>

\* write_setup_cfg: cfg.read(setup_cfg); the builder section must be there
write_setup_cfg_read ==
    /\ pc = "read" /\ builder = "ini"
    /\ \E has_section \in BOOLEAN :
           IF has_section
           THEN pc' = "construct" /\ cfg_reads' = cfg_reads + 1 /\ UNCHANGED error
           ELSE /\ error' = "MissingSectionException: 'setup.cfg' is missing the section"
                /\ pc' = "raised"
                /\ \E exists \in BOOLEAN :
                       cfg_reads' = IF exists THEN cfg_reads + 1 ELSE cfg_reads
    /\ UNCHANGED <<builder, repoVars, docVars, readmeVars, depVars, argVars, cfg_disk, classifyVars, pythonVars, metaVars, foundVars,
                   cfg_writes, readme_writes>>

\* _build_out_sections: ffile = FromFiles(root_path, bsec, dirs_exclude, ...)
cfg_FromFiles_read ==
    /\ pc = "constructed" /\ builder = "ini"
    /\ \E root_exists \in BOOLEAN, tree \in trees, rd \in ReadmeSuffixes,
          decls_of \in inits :
           LET ffile == cfg_FromFiles_init(root_exists, tree, decls_of, rd, exclude_dirs,
                                           package_dirs, patch_without_tag, commit_message)
           IN  IF ffile.err # ""
               THEN /\ error' = ffile.err /\ pc' = "raised"
                    /\ UNCHANGED <<foundVars, version, development_status>>
               ELSE /\ packages' = ffile.packages /\ readme' = rd
                    /\ version' = ffile.version
                    /\ development_status' = ffile.status
                    /\ pc' = "files" /\ UNCHANGED error
    /\ UNCHANGED <<builder, repoVars, docVars, readmeVars, depVars, argVars, cfg_reads, cfg_disk, commit_message, patch_without_tag, pythonVars, metaVars,
                   cfg_writes, readme_writes>>

\* _build_out_sections: gh_api = GitHubAPI(github_full_repo, token)
cfg_GitHubAPI_init ==
    /\ pc = "files" /\ builder = "ini"
    /\ \E ok \in BOOLEAN :
           IF ok THEN pc' = "github" /\ UNCHANGED error
           ELSE error' = "HTTPError" /\ pc' = "raised"
    /\ UNCHANGED <<builder, repoVars, docVars, readmeVars, depVars, argVars, cfg_reads, cfg_disk, classifyVars, pythonVars, metaVars, foundVars,
                   cfg_writes, readme_writes>>

\* _build_out_sections: [metadata]; in PyPI mode MetadataSection(...) takes
\* keywords_list() and then python_classifiers()
build_metadata ==
    /\ pc = "github" /\ builder = "ini"
    /\ LET kws == keywords_list(keywords, base_keywords, pypi_name)
           mm == BuilderSection_python3_min_max(python_min, python_max, latest_py3)
       IN  IF pypi_name = ""
           THEN pc' = "metadata" /\ UNCHANGED <<error, classifiers>>
           ELSE IF kws.err # ""
           THEN error' = kws.err /\ pc' = "raised" /\ UNCHANGED classifiers
           ELSE IF mm.err # ""
           THEN error' = mm.err /\ pc' = "raised" /\ UNCHANGED classifiers
           ELSE /\ classifiers' = BuilderSection_python_classifiers(mm.val)
                /\ pc' = "metadata" /\ UNCHANGED error
    /\ UNCHANGED <<builder, repoVars, docVars, readmeVars, depVars, argVars, cfg_reads, cfg_disk, classifyVars, python_min, python_max, latest_py3,
                   requires_python, metaVars, foundVars, cfg_writes, readme_writes>>

\* _build_out_sections: [options] with bsec.python_requires(), and the
\* sections after it up to the README manager
build_options ==
    /\ pc = "metadata" /\ builder = "ini"
    /\ LET mm == BuilderSection_python3_min_max(python_min, python_max, latest_py3)
       IN  IF mm.err # ""
           THEN error' = mm.err /\ pc' = "raised" /\ UNCHANGED requires_python
           ELSE /\ requires_python' = BuilderSection_python_requires(mm.val)
                /\ pc' = "built" /\ UNCHANGED error
    /\ UNCHANGED <<builder, repoVars, docVars, readmeVars, depVars, argVars, cfg_reads, cfg_disk, classifyVars, python_min, python_max, latest_py3,
                   classifiers, metaVars, foundVars, cfg_writes, readme_writes>>

\* write_setup_cfg: with open(setup_cfg, "w") as f: cfg_new.write(f)
write_setup_cfg_dump ==
    /\ pc = "built" /\ builder = "ini"
    /\ cfg_writes' = cfg_writes + 1
    /\ cfg_disk' = MERGED
    /\ pc' = "dumped"
    /\ UNCHANGED <<builder, repoVars, docVars, readmeVars, depVars, argVars, cfg_reads, classifyVars, pythonVars, metaVars, foundVars,
                   error, readme_writes>>

\* the headers are commented in the text the first write produced, kept in
\* memory: the file is not opened for reading again
write_setup_cfg_annotate_InMemory ==
    /\ pc = "dumped" /\ builder = "ini"
    /\ cfg_writes' = cfg_writes + 1
    /\ cfg_disk' = ANNOTATED
    /\ pc' = "written"
    /\ UNCHANGED <<builder, repoVars, docVars, readmeVars, depVars, argVars, cfg_reads,
                   classifyVars, pythonVars, metaVars, foundVars, error, readme_writes>>

\* write_setup_cfg: the file is read back, its section headers are commented
\* and it is written again
write_setup_cfg_annotate ==
    /\ pc = "dumped" /\ builder = "ini"
    /\ cfg_reads' = cfg_reads + 1
    /\ cfg_writes' = cfg_writes + 1
    /\ cfg_disk' = ANNOTATED
    /\ pc' = "written"
    /\ UNCHANGED <<builder, repoVars, docVars, readmeVars, depVars, argVars, classifyVars, pythonVars, metaVars, foundVars,
                   error, readme_writes>>

\* main: if readme_mgr: write the lines to readme_mgr.readme_path
main_readme ==
    /\ pc = "written" /\ builder = "ini"
    /\ readme_writes' = IF readme = ".md" THEN readme_writes + 1 ELSE readme_writes
    /\ pc' = "done"
    /\ UNCHANGED <<builder, repoVars, docVars, readmeVars, depVars, argVars, cfg_reads, cfg_disk, classifyVars, pythonVars, metaVars, foundVars,
                   error, cfg_writes>>

Next ==
    \/ GHAInput_init
    \/ write_toml_load
    \/ FromFiles_read
    \/ GitHubAPI_init
    \/ validate_repo_initial_state
    \/ build_project
    \/ build_semantic_release
    \/ write_toml_dump
    \/ work_readme
    \/ write_setup_cfg_read
    \/ BuilderSection_init
    \/ cfg_FromFiles_read
    \/ cfg_GitHubAPI_init
    \/ build_metadata
    \/ build_options
    \/ write_setup_cfg_dump
    \/ write_setup_cfg_annotate
    \/ main_readme

Spec == Init /\ [][Next]_vars

\* A run in one given repository: the script sees the one directory listing
\* and the __init__.py files that repository has, with inputs that pass the
\* checks of the constructors
FilesPackageDirs == {<<>>, <<"b", "a">>, <<"a", "c">>}

InitFiles ==
    /\ builder \in {"toml", "ini"}
    /\ pc = IF builder = "toml" THEN "construct" ELSE "read"
    /\ commit_message = <<"w", "i", "p">>
    /\ patch_without_tag = IF builder = "toml" THEN TRUE ELSE "True"
    /\ version = NO_STRING /\ development_status = NONE
    /\ python_min = IF builder = "toml" THEN <<3, 6>> ELSE ReleaseText(<<3, 6>>)
    /\ python_max = IF builder = "toml" THEN <<3, 7>> ELSE ReleaseText(<<3, 7>>)
    /\ latest_py3 = NO_RELEASE
    /\ requires_python = NO_STRING /\ classifiers = NO_LIST
    /\ pypi_name \in {"", "wipac-pkg"}
    /\ author = "A"
    /\ author_email = "a@b"
    /\ keywords = <<KEYWORD>>
    /\ base_keywords = <<>>
    /\ package_dirs \in FilesPackageDirs
    /\ exclude_dirs \in RunExcludeDirs
    /\ packages = <<>> /\ readme = ""
    /\ FileDefaults
    /\ trees \in {{t} : t \in Trees}
    /\ inits \in {{f} : f \in [{"a", "b"} -> Decls]}
    /\ DocDefaults /\ ReadmeDefaults /\ DepDefaults /\ ArgDefaults

SpecFiles == InitFiles /\ [][Next]_vars

----------------------------------------------------------------------------
(* The config file as a document.  A document is the sequence of its       *)
(* sections (tables) in file order; a section is a name and the sequence   *)
(* of its <<key, value>> pairs; a value is a sequence of lines (items); a  *)
(* line is a text, the sequence of the pieces it is concatenated from.     *)

Sec(n, b) == [name |-> n, body |-> b]

\* a one-line value, and a list of one-piece lines
One(text) == <<text>>
Lines(ss) == [i \in 1..Len(ss) |-> <<ss[i]>>]

\* key in dict
HasKey(body, k) == \E i \in 1..Len(body) : body[i][1] = k

\* dict[key]
Get(body, k) == body[CHOOSE i \in 1..Len(body) : body[i][1] = k][2]

\* dict.get(key, fallback)
GetOr(body, k, fallback) == IF HasKey(body, k) THEN Get(body, k) ELSE fallback

\* dict[key] = value: an existing key keeps its place, a new key goes last
Put(body, k, v) ==
    IF HasKey(body, k)
    THEN [i \in 1..Len(body) |-> IF body[i][1] = k THEN <<k, v>> ELSE body[i]]
    ELSE Append(body, <<k, v>>)

\* dict.update(pairs) / {**dict, **pairs}
RECURSIVE Update(_, _)
Update(body, pairs) ==
    IF pairs = <<>> THEN body
    ELSE Update(Put(body, pairs[1][1], pairs[1][2]), Tail(pairs))

\* cfg.has_section(name) / name in toml_dict
HasSection(d, n) == \E i \in 1..Len(d) : d[i].name = n

\* cfg[name]
Section(d, n) == d[CHOOSE i \in 1..Len(d) : d[i].name = n].body

SectionOr(d, n, fallback) == IF HasSection(d, n) THEN Section(d, n) ELSE fallback

\* cfg[name] = body: an existing section keeps its place, a new one goes last
SetSection(d, n, b) ==
    IF HasSection(d, n)
    THEN [i \in 1..Len(d) |-> IF d[i].name = n THEN Sec(n, b) ELSE d[i]]
    ELSE Append(d, Sec(n, b))

\* cfg.remove_section(name)
RemoveSection(d, n) == SelectSeq(d, LAMBDA sec : sec.name # n)

SectionNames(d) == [i \in 1..Len(d) |-> d[i].name]

\* the dependency names the documents use, in the order sorted() gives them
SORTED_TEXTS == <<"alpha", "beta", "py.typed", "zeta">>

Rank(line) == CHOOSE i \in 1..Len(SORTED_TEXTS) : SORTED_TEXTS[i] = line[1]

\* the lines left as they are
Sorted_Unsorted(lines) == lines

\* sorted(lines)
RECURSIVE Sorted(_)
Sorted(lines) ==
    IF lines = <<>> THEN <<>>
    ELSE LET least == CHOOSE i \in 1..Len(lines) :
                          \A j \in 1..Len(lines) :
                              Rank(lines[i]) < Rank(lines[j])
                                  \/ (Rank(lines[i]) = Rank(lines[j]) /\ i <= j)
         IN  <<lines[least]>>
                 \o Sorted([k \in 1..(Len(lines) - 1) |->
                               IF k < least THEN lines[k] ELSE lines[k + 1]])

\* sep.join(texts)
RECURSIVE Join(_, _)
Join(texts, sep) ==
    IF texts = <<>> THEN <<>>
    ELSE IF Len(texts) = 1 THEN texts[1]
    ELSE texts[1] \o <<sep>> \o Join(Tail(texts), sep)

\* text.replace("_", "-")
Dashed(text) == [i \in 1..Len(text) |-> IF text[i] = "_" THEN "-" ELSE text[i]]

----------------------------------------------------------------------------
(* setup_builder.py: the sections of setup.cfg *)

BUILDER_SECTION_NAME == "wipac:cicd_setup_builder"
GENERATED_STR == "generated by wipac:cicd_setup_builder"

\* what GitHubAPI answers for the repository, and --license
GITHUB_FULL_REPO == "Org/repo"
GH_URL == <<"https://github.com/", GITHUB_FULL_REPO>>
GH_DESCRIPTION == <<"description from GitHub">>
GH_DEFAULT_BRANCH == <<"main">>
REPO_LICENSE == <<"MIT">>

\* list_to_dangling(lines): every line stripped, the empty ones dropped
list_to_dangling(lines) == SelectSeq(lines, LAMBDA ln : ln # <<>>)

\* long_description_content_type(readme_path)
long_description_content_type(suffix) ==
    IF suffix = ".md" THEN <<"text/markdown">>
    ELSE IF suffix = ".rst" THEN <<"text/x-rst">>
    ELSE <<"text/plain">>

\* f"attr: {ffile.packages[0]}.__version__"
meta_version_single(pkgs) == <<"attr: ", pkgs[1], ".__version__">>

\* "_".join(ffile.packages).replace("_", "-")
AutoName(pkgs) == Dashed(Join(Lines(pkgs), "_"))

\* dataclasses.asdict(MetadataSection(...)), in field order
MetadataSection(inp) ==
    << <<"name", One(<<inp.pypi_name>>)>>,
       <<"version", One(meta_version_single(inp.packages))>>,
       <<"url", One(GH_URL)>>,
       <<"author", One(<<inp.author>>)>>,
       <<"author_email", One(<<inp.author_email>>)>>,
       <<"description", One(GH_DESCRIPTION)>>,
       <<"long_description", One(<<"file: README", inp.readme>>)>>,
       <<"long_description_content_type", One(long_description_content_type(inp.readme))>>,
       <<"keywords", list_to_dangling(inp.keywords)>>,
       <<"license", One(REPO_LICENSE)>>,
       <<"classifiers",
         list_to_dangling(<< <<inp.development_status>>,
                             <<"License :: OSI Approved :: MIT License">> >>
                              \o inp.classifiers)>>,
       <<"download_url", One(<<"https://pypi.org/project/", inp.pypi_name, "/">>)>>,
       <<"project_urls",
         list_to_dangling(<< <<"Tracker = ">> \o GH_URL \o <<"/issues">>,
                             <<"Source = ">> \o GH_URL >>)>> >>

\* _build_out_sections: [metadata]
cfg_metadata(d, inp) ==
    LET d1 == IF HasSection(d, "metadata") THEN d ELSE SetSection(d, "metadata", <<>>)
        old == Section(d1, "metadata")
        named == Update(old, << <<"name", One(AutoName(inp.packages))>>,
                                <<"version", One(meta_version_single(inp.packages))>> >>)
        authored == IF inp.author # "" THEN Put(named, "author", One(<<inp.author>>))
                    ELSE named
        mailed == IF inp.author_email # ""
                  THEN Put(authored, "author_email", One(<<inp.author_email>>))
                  ELSE authored
        keyworded == IF inp.keywords # <<>>
                     THEN Put(mailed, "keywords", list_to_dangling(inp.keywords))
                     ELSE mailed
    IN  IF inp.pypi_name = ""
        THEN SetSection(d1, "metadata", keyworded)
        ELSE SetSection(d1, "metadata", Update(old, MetadataSection(inp)))

\* _build_out_sections: the keys of [semantic_release]
cfg_SemanticRelease(inp) ==
    << <<"version_variable",
         One(Join([i \in 1..Len(inp.packages) |->
                      <<inp.packages[i], "/__init__.py:__version__">>], ","))>>,
       <<"upload_to_pypi", One(<<IF inp.pypi_name # "" THEN "True" ELSE "False">>)>>,
       <<"patch_without_tag", One(<<inp.patch_without_tag>>)>>,
       <<"commit_parser", One(<<"semantic_release.history.emoji_parser">>)>>,
       <<"major_emoji", One(Join(cfg_SEMANTIC_RELEASE_MAJOR, ", "))>>,
       <<"minor_emoji", One(Join(cfg_SEMANTIC_RELEASE_MINOR, ", "))>>,
       <<"patch_emoji", One(Join(cfg_SEMANTIC_RELEASE_PATCH, ", "))>>,
       <<"branch", One(GH_DEFAULT_BRANCH)>> >>

\* the keys merged into the section the file had
cfg_semantic_release_Merged(d, inp) ==
    SetSection(d, "semantic_release",
               Update(SectionOr(d, "semantic_release", <<>>), cfg_SemanticRelease(inp)))

\* _build_out_sections: [semantic_release], removed and built anew
cfg_semantic_release(d, inp) ==
    Append(RemoveSection(d, "semantic_release"),
           Sec("semantic_release", cfg_SemanticRelease(inp)))

\* OptionsSection.__post_init__: a dangling install_requires is sorted
OptionsSection_install_requires(value) ==
    IF Len(list_to_dangling(value)) >= 2 THEN Sorted(list_to_dangling(value)) ELSE value

\* _build_out_sections: [options]
cfg_options(d, inp) ==
    LET d1 == IF HasSection(d, "options") THEN d ELSE SetSection(d, "options", <<>>)
        old == Section(d1, "options")
    IN  SetSection(d1, "options",
            Update(old,
                   << <<"python_requires", One(inp.requires_python)>>,
                      <<"install_requires",
                        OptionsSection_install_requires(GetOr(old, "install_requires", <<>>))>>,
                      <<"packages", One(<<"find:">>)>> >>))

\* _build_out_sections: [options.packages.find]
cfg_options_packages_find(d, inp) ==
    LET include == IF inp.package_dirs # <<>>
                   THEN << <<"include",
                              list_to_dangling(Lines(inp.package_dirs)
                                  \o [i \in 1..Len(inp.package_dirs) |->
                                         <<inp.package_dirs[i], ".*">>])>> >>
                   ELSE <<>>
        exclude == IF inp.exclude_dirs # <<>>
                   THEN << <<"exclude", list_to_dangling(Lines(inp.exclude_dirs))>> >>
                   ELSE <<>>
    IN  SetSection(d, "options.packages.find", include \o exclude)

\* "py.typed" in text
HasPyTyped(value) ==
    \E i \in 1..Len(value) : \E j \in 1..Len(value[i]) : value[i][j] = "py.typed"

\* _build_out_sections: [options.package_data]
cfg_options_package_data(d) ==
    LET d1 == IF HasSection(d, "options.package_data") THEN d
              ELSE SetSection(d, "options.package_data", <<>>)
        old == Section(d1, "options.package_data")
        star == GetOr(old, "*", <<>>)
        star_data == IF star = <<>> \/ star = <<<<>>>> THEN One(<<"py.typed">>)
                     ELSE <<<<"py.typed", ", ">> \o star[1]>> \o Tail(star)
    IN  IF HasPyTyped(star) THEN d1
        ELSE SetSection(d1, "options.package_data", Put(old, "*", star_data))

\* _build_out_sections(cfg, ...): each step works on the cfg the step before
\* it left
build_out_sections(d, inp) ==
    CHOOSE out \in
        {cfg_options_package_data(d4) :
            d4 \in {cfg_options_packages_find(d3, inp) :
                d3 \in {cfg_options(d2, inp) :
                    d2 \in {cfg_semantic_release(d1, inp) :
                        d1 \in {cfg_metadata(d, inp)}}}}} : TRUE

\* the section names that start with "options.", as sorted() orders them
OPTIONS_DOT_SECTIONS ==
    <<"options.entry_points", "options.extras_require",
      "options.package_data", "options.packages.find">>

InSeq(x, seq) == \E i \in 1..Len(seq) : seq[i] = x

\* only the sections the script writes keys into are moved to the top
tops_OwnedOnly(d) ==
    <<BUILDER_SECTION_NAME, "metadata", "semantic_release", "options",
      "options.package_data", "options.packages.find">>

\* write_setup_cfg: the sections moved to the top
tops(d) ==
    <<BUILDER_SECTION_NAME, "metadata", "semantic_release", "options">>
        \o SelectSeq(OPTIONS_DOT_SECTIONS, LAMBDA n : HasSection(d, n))

\* write_setup_cfg: cfg_new, the sections of tops and then the rest
reordered(d) ==
    [i \in 1..Len(tops(d)) |-> Sec(tops(d)[i], Section(d, tops(d)[i]))]
        \o SelectSeq(d, LAMBDA sec : ~InSeq(sec.name, tops(d)))

\* the names of MetadataSection's fields
METADATA_FIELDS ==
    <<"name", "version", "url", "author", "author_email", "description",
      "long_description", "long_description_content_type", "keywords", "license",
      "classifiers", "download_url", "project_urls">>

\* write_setup_cfg: what c.replace() puts in place of a section header
Annotated(header, d) ==
    CASE header = "[metadata]" ->
             <<header, "  # ", GENERATED_STR, ": ">>
                 \o Join(Lines(SelectSeq(METADATA_FIELDS,
                                  LAMBDA f : HasKey(Section(d, "metadata"), f))), ", ")
      [] header = "[semantic_release]" -> <<header, "  # fully-", GENERATED_STR>>
      [] header = "[options]" ->
             <<header, "  # ", GENERATED_STR, ": python_requires, packages">>
      [] header = "[options.package_data]" -> <<header, "  # ", GENERATED_STR, ": '*'">>
      [] header = "[options.packages.find]" ->
             <<header, "  # ", GENERATED_STR, ": include/exclude">>
      [] OTHER -> <<header>>

\* c.replace(header, ...) on one line of the file's text
RECURSIVE AnnotateLine(_, _)
AnnotateLine(line, d) ==
    IF line = <<>> THEN <<>>
    ELSE Annotated(line[1], d) \o AnnotateLine(Tail(line), d)

\* write_setup_cfg: the file is read back as text, every header text in it
\* is replaced, and the text is written again; the document is what
\* cfg.read() makes of that file
annotated(d) ==
    [i \in 1..Len(d) |->
        Sec(d[i].name,
            [k \in 1..Len(d[i].body) |->
                <<d[i].body[k][1],
                  [l \in 1..Len(d[i].body[k][2]) |->
                      AnnotateLine(d[i].body[k][2][l], d)]>>])]

\* write_setup_cfg(setup_cfg, ...): the file it leaves
write_setup_cfg(d, inp) ==
    CHOOSE out \in
        {annotated(cfg_new) :
            cfg_new \in {reordered(cfg) : cfg \in {build_out_sections(d, inp)}}} : TRUE

----------------------------------------------------------------------------
(* pyproject_toml_builder.py: the tables of pyproject.toml.  The tables of *)
(* the file are kept flat, under their dotted names.                       *)

\* the items of a list, as a set, and the lists a set may be turned into
Items(value) == {value[i] : i \in 1..Len(value)}
Orderings(S) ==
    {f \in [1..Cardinality(S) -> S] : \A i, j \in 1..Cardinality(S) : f[i] = f[j] => i = j}

\* a set of dependency lines as the one list sorted() makes of it
SortedSet(S) == CHOOSE f \in Orderings(S) : Sorted(f) = f

\* PyProjectTomlBuilder.__init__: [build-system]
toml_build_system(d) ==
    SetSection(d, "build-system",
               << <<"requires", One(<<"setuptools>=61.0">>)>>,
                  <<"build-backend", One(<<"setuptools.build_meta">>)>> >>)

\* the one table of project.authors
Authors(auth, email) ==
    One(<<"{">>
        \o (IF auth # "" THEN <<"name = ", auth>> ELSE <<>>)
        \o (IF auth # "" /\ email # "" THEN <<", ">> ELSE <<>>)
        \o (IF email # "" THEN <<"email = ", email>> ELSE <<>>)
        \o <<"}">>)

\* PyProjectTomlBuilder.__init__: [project] and [project.urls]
toml_project(d, inp) ==
    LET old == Section(d, "project")
        named == Update(old, << <<"name", One(AutoName(inp.packages))>>,
                                <<"requires-python", One(inp.requires_python)>> >>)
        authored == IF inp.author # "" \/ inp.author_email # ""
                    THEN Put(named, "authors", Authors(inp.author, inp.author_email))
                    ELSE named
        keyworded == IF inp.keywords # <<>> THEN Put(authored, "keywords", inp.keywords)
                     ELSE authored
        pypi == Update(old,
                    << <<"name", One(<<inp.pypi_name>>)>>,
                       <<"authors", Authors(inp.author, inp.author_email)>>,
                       <<"description", One(GH_DESCRIPTION)>>,
                       <<"readme", One(<<"README", inp.readme>>)>>,
                       <<"license", One(<<"{file = LICENSE}">>)>>,
                       <<"keywords", inp.keywords>>,
                       <<"classifiers", <<<<inp.development_status>>>> \o inp.classifiers>>,
                       <<"requires-python", One(inp.requires_python)>> >>)
        urls == << <<"Homepage", One(<<"https://pypi.org/project/", inp.pypi_name, "/">>)>>,
                   <<"Tracker", One(GH_URL \o <<"/issues">>)>>,
                   <<"Source", One(GH_URL)>> >>
    IN  IF inp.pypi_name = ""
        THEN SetSection(d, "project", keyworded)
        ELSE SetSection(SetSection(d, "project", pypi), "project.urls", urls)

\* PATCH_WITHOUT_TAG_WORKAROUND, sorted: the printable characters
PATCH_WITHOUT_TAG_WORKAROUND == <<"sorted(PATCH_WITHOUT_TAG_WORKAROUND)">>

\* PyProjectTomlBuilder.__init__: [tool.semantic_release], assigned whole
toml_semantic_release(d, inp) ==
    SetSection(d, "tool.semantic_release",
        << <<"version_toml", One(<<"pyproject.toml:project.version">>)>>,
           <<"version_variables",
             [i \in 1..Len(inp.packages) |-> <<inp.packages[i], "/__init__.py", ":__version__">>]>>,
           <<"commit_parser", One(<<"emoji">>)>>,
           <<"commit_parser_options.major_tags", SEMANTIC_RELEASE_MAJOR>>,
           <<"commit_parser_options.minor_tags", SEMANTIC_RELEASE_MINOR>>,
           <<"commit_parser_options.patch_tags",
             IF ~inp.patch_without_tag THEN SEMANTIC_RELEASE_PATCH
             ELSE SEMANTIC_RELEASE_PATCH \o <<PATCH_WITHOUT_TAG_WORKAROUND>> >>,
           <<"build_command", One(<<"pip install build && python -m build">>)>> >>)

\* PyProjectTomlBuilder._tool_setuptools_packages_find
tool_setuptools_packages_find(inp) ==
    IF inp.package_dirs # <<>>
    THEN << <<"include",
              Lines(inp.package_dirs)
                  \o [i \in 1..Len(inp.package_dirs) |-> <<inp.package_dirs[i], ".*">>]>> >>
    ELSE << <<"namespaces", One(<<"false">>)>> >>
             \o (IF inp.exclude_dirs # <<>>
                 THEN << <<"exclude", Lines(inp.exclude_dirs)>> >> ELSE <<>>)

\* PyProjectTomlBuilder._tool_setuptools_packagedata_star: the lists it may
\* return; list(set) puts the strings in the order of their hashes, which
\* differs from one interpreter process to the next
tool_setuptools_packagedata_star(d) ==
    LET pdata == SectionOr(d, "tool.setuptools.package-data", <<>>)
        current == Items(Get(pdata, "*"))
    IN  IF ~HasKey(pdata, "*") THEN {One(<<"py.typed">>)}
        ELSE IF <<"py.typed">> \in current THEN Orderings(current)
        ELSE {f \o One(<<"py.typed">>) : f \in Orderings(current)}

\* PyProjectTomlBuilder.__init__: [tool.setuptools], star being the list
\* _tool_setuptools_packagedata_star returned
toml_setuptools(d, inp, star) ==
    SetSection(SetSection(d, "tool.setuptools.packages.find",
                          tool_setuptools_packages_find(inp)),
               "tool.setuptools.package-data",
               Put(SectionOr(d, "tool.setuptools.package-data", <<>>), "*", star))

\* PyProjectTomlBuilder.__init__: [project.optional-dependencies][mypy]
toml_mypy(d, inp) ==
    LET n == "project.optional-dependencies"
        others == SelectSeq(Section(d, n), LAMBDA kv : kv[1] # "mypy")
        deps == UNION {Items(others[i][2]) : i \in 1..Len(others)}
    IN  IF inp.auto_mypy_option /\ HasSection(d, n)
        THEN SetSection(d, n, Put(Section(d, n), "mypy", SortedSet(deps)))
        ELSE d

\* set_multiline_array(toml_dict, *path, sort=True)
set_multiline_array_sorted(d, n, k) ==
    IF HasSection(d, n) /\ HasKey(Section(d, n), k)
    THEN SetSection(d, n, Put(Section(d, n), k, Sorted(Get(Section(d, n), k))))
    ELSE d

\* write_toml: the optional-dependency lists, each sorted
optional_deps_sorted(d) ==
    LET n == "project.optional-dependencies"
    IN  IF HasSection(d, n)
        THEN SetSection(d, n, [i \in 1..Len(Section(d, n)) |->
                                  <<Section(d, n)[i][1], Sorted(Section(d, n)[i][2])>>])
        ELSE d

\* write_toml(toml_file, ...): the file it leaves
write_toml(d, inp, star) ==
    CHOOSE out \in
        {optional_deps_sorted(set_multiline_array_sorted(d5, "project", "dependencies")) :
            d5 \in {toml_mypy(d4, inp) :
                d4 \in {toml_setuptools(d3, inp, star) :
                    d3 \in {toml_semantic_release(d2, inp) :
                        d2 \in {toml_project(d1, inp) :
                            d1 \in {toml_build_system(d)}}}}}} : TRUE

----------------------------------------------------------------------------
(* Runs of either script on a config file, each with the same inputs and   *)
(* each on the file the run before it left                                 *)

\* sections a document holds besides the mandatory one: at most MaxSections
MaxSections == 2
\* runs on one config file
MaxRuns == 2

\* the sections a setup.cfg may hold besides [wipac:cicd_setup_builder]
cfg_SectionPool ==
    { Sec("metadata", << <<"name", One(<<"old">>)>>, <<"nickname", One(<<"nick">>)>> >>),
      Sec("metadata", << <<"note", One(<<"see ", "[metadata]">>)>> >>),
      Sec("semantic_release", << <<"stale", One(<<"1">>)>>, <<"branch", One(<<"old">>)>> >>),
      Sec("options", << <<"install_requires", Lines(<<"zeta", "alpha">>)>>,
                        <<"extra", One(<<"1">>)>>,
                        <<"packages", One(<<"mypkg">>)>> >>),
      Sec("options", << <<"install_requires", One(<<"zeta; alpha">>)>> >>),
      Sec("options.extras_require", << <<"dev", Lines(<<"zeta", "alpha">>)>> >>),
      Sec("options.entry_points", << <<"console_scripts", One(<<"run = a:main">>)>> >>),
      Sec("options.package_data", << <<"*", One(<<"alpha">>)>> >>),
      Sec("options.packages.find", << <<"include", One(<<"stale">>)>> >>),
      Sec("foo", << <<"a", One(<<"11">>)>> >>),
      Sec("foo", << <<"note", One(<<"see ", "[options]">>)>> >>),
      Sec("baz", << <<"b", One(<<"22">>)>> >>) }

\* the tables a pyproject.toml may hold besides [project]
toml_SectionPool ==
    { Sec("build-system", << <<"requires", One(<<"stale">>)>> >>),
      Sec("project.optional-dependencies",
          << <<"dev", Lines(<<"zeta", "alpha">>)>>, <<"mypy", Lines(<<"beta">>)>> >>),
      Sec("project.urls", << <<"Stale", One(<<"old">>)>> >>),
      Sec("tool.semantic_release",
          << <<"stale", One(<<"1">>)>>, <<"commit_parser", One(<<"old">>)>> >>),
      Sec("tool.setuptools.package-data", << <<"*", Lines(<<"alpha">>)>> >>),
      Sec("tool.setuptools.package-data",
          << <<"a", Lines(<<"data">>)>>, <<"*", Lines(<<"py.typed">>)>> >>),
      Sec("tool.setuptools.packages.find", << <<"include", One(<<"stale">>)>> >>),
      Sec("tool.black", << <<"line-length", One(<<"88">>)>> >>),
      Sec("baz", << <<"a", One(<<"11">>)>> >>),
      Sec("foo.bar", << <<"b", One(<<"22">>)>> >>) }

\* [project] with the project.version the script insists on
toml_Projects ==
    { Sec("project", << <<"version", One(V_1_2_3)>> >>),
      Sec("project", << <<"name", One(<<"old">>)>>,
                        <<"nickname", One(<<"nick">>)>>,
                        <<"version", One(V_1_2_3)>>,
                        <<"dependencies", Lines(<<"zeta", "alpha">>)>>,
                        <<"classifiers", Lines(<<"Framework :: X">>)>> >>) }

DistinctNames(d) == \A i, j \in 1..Len(d) : d[i].name = d[j].name => i = j

\* the documents a run may start from: the mandatory section first or last
Documents(mandatory, pool) ==
    LET others == {d \in Tuples(pool, 0, MaxSections) : DistinctNames(d)}
    IN  {<<m>> \o d : m \in mandatory, d \in others}
            \cup {d \o <<m>> : m \in mandatory, d \in others}

\* [wipac:cicd_setup_builder] as the inputs of the run make it
BuilderSection_body ==
    << <<"python_min", One(python_min)>>, <<"python_max", One(python_max)>> >>
        \o (IF pypi_name # "" THEN << <<"pypi_name", One(<<pypi_name>>)>> >> ELSE <<>>)
        \o (IF author # "" THEN << <<"author", One(<<author>>)>> >> ELSE <<>>)
        \o (IF author_email # "" THEN << <<"author_email", One(<<author_email>>)>> >>
            ELSE <<>>)
        \o (IF keywords # <<>> THEN << <<"keywords_spaced", One(Join(keywords, " "))>> >>
            ELSE <<>>)
        \o (IF package_dirs # <<>>
            THEN << <<"package_dirs", One(Join(Lines(package_dirs), " "))>> >> ELSE <<>>)

\* The runs on a config file take the packages as FromFiles hands them to
\* the builder; gha_input.exclude_dirs is empty or names one directory
InitMerge ==
    /\ builder \in {"toml", "ini"}
    /\ pc = "merge"
    /\ version = V_1_2_3
    /\ commit_message = <<"w", "i", "p">>
    /\ patch_without_tag = IF builder = "toml" THEN TRUE ELSE "True"
    /\ development_status = NONE
    /\ python_min = IF builder = "toml" THEN <<3, 6>> ELSE ReleaseText(<<3, 6>>)
    /\ python_max = IF builder = "toml" THEN <<3, 7>> ELSE ReleaseText(<<3, 7>>)
    /\ latest_py3 = NO_RELEASE
    /\ requires_python = NO_STRING /\ classifiers = NO_LIST
    /\ pypi_name \in {"", "wipac-pkg"}
    /\ author \in (IF pypi_name = "" THEN {"", "A"} ELSE {"A"})
    /\ author_email = IF pypi_name = "" THEN "" ELSE "a@b"
    /\ keywords = IF pypi_name = "" THEN <<>> ELSE <<<<"w", "e", "b">>, KEYWORD>>
    /\ base_keywords = <<>>
    /\ package_dirs \in {<<>>, <<"a", "b">>}
    /\ exclude_dirs \in {<<>>, <<"tests">>}
    /\ packages = IF package_dirs = <<>> THEN <<"a">> ELSE package_dirs
    /\ readme = ".md"
    /\ FileDefaults /\ RepoDefaults /\ ReadmeDefaults /\ DepDefaults /\ ArgDefaults
    /\ auto_mypy_option \in (IF builder = "toml" THEN BOOLEAN ELSE {FALSE})
    /\ doc \in (IF builder = "toml" THEN Documents(toml_Projects, toml_SectionPool)
                ELSE Documents({Sec(BUILDER_SECTION_NAME, BuilderSection_body)},
                               cfg_SectionPool))
    /\ doc_before = doc /\ first_out = <<>> /\ runs = 0

\* what PyProjectTomlBuilder.__init__ takes from gha_input, ffile and gh_api
toml_inputs ==
    [pypi_name |-> pypi_name, author |-> author, author_email |-> author_email,
     keywords |-> keywords, package_dirs |-> package_dirs, exclude_dirs |-> exclude_dirs,
     packages |-> packages, readme |-> readme,
     patch_without_tag |-> patch_without_tag, auto_mypy_option |-> auto_mypy_option,
     development_status |->
         get_development_status(Get(Section(doc, "project"), "version")[1],
                                patch_without_tag, commit_message),
     classifiers |-> python_classifiers(python_min, python_max),
     requires_python |-> get_requires_python(python_min, python_max)]

\* what _build_out_sections takes from bsec, ffile and gh_api
cfg_inputs ==
    LET mm == BuilderSection_python3_min_max(python_min, python_max, latest_py3).val
    IN  [pypi_name |-> pypi_name, author |-> author, author_email |-> author_email,
         keywords |-> keywords_list(keywords, base_keywords, pypi_name).val,
         package_dirs |-> package_dirs, exclude_dirs |-> exclude_dirs,
         packages |-> packages, readme |-> readme,
         patch_without_tag |-> patch_without_tag,
         development_status |->
             FromFiles_get_development_status(version, patch_without_tag, commit_message),
         classifiers |-> BuilderSection_python_classifiers(mm),
         requires_python |-> BuilderSection_python_requires(mm)]

\* work(toml_file, ...): one run of pyproject_toml_builder.py on the file
work ==
    /\ pc = "merge" /\ builder = "toml" /\ runs < MaxRuns
    /\ \E star \in tool_setuptools_packagedata_star(doc) :
           doc' = write_toml(doc, toml_inputs, star)
    /\ doc_before' = doc
    /\ first_out' = IF runs = 0 THEN doc' ELSE first_out
    /\ runs' = runs + 1
    /\ UNCHANGED <<builder, pc, classifyVars, pythonVars, metaVars, foundVars, fileVars,
                   repoVars, readmeVars, depVars, argVars, cfg_reads, cfg_disk, auto_mypy_option>>

\* main(setup_cfg, ...): one run of setup_builder.py on the file
main ==
    /\ pc = "merge" /\ builder = "ini" /\ runs < MaxRuns
    /\ doc' = write_setup_cfg(doc, cfg_inputs)
    /\ doc_before' = doc
    /\ first_out' = IF runs = 0 THEN doc' ELSE first_out
    /\ runs' = runs + 1
    /\ UNCHANGED <<builder, pc, classifyVars, pythonVars, metaVars, foundVars, fileVars,
                   repoVars, readmeVars, depVars, argVars, cfg_reads, cfg_disk, auto_mypy_option>>

NextMerge == work \/ main

SpecMerge == InitMerge /\ [][NextMerge]_vars

----------------------------------------------------------------------------
(* The README: READMEMarkdownManager and the write of its lines.  A README *)
(* is the sequence of its lines, a line the sequence of its pieces.        *)

REAMDE_BADGES_START_DELIMITER == "<!--- Top of README Badges (automated) --->"
REAMDE_BADGES_END_DELIMITER == "<!--- End of README Badges (automated) --->"

\* line.strip(): the blank pieces at both ends removed
RECURSIVE LStrip(_)
LStrip(line) ==
    IF line # <<>> /\ line[1] = " " THEN LStrip(Tail(line)) ELSE line

RECURSIVE RStrip(_)
RStrip(line) ==
    IF line # <<>> /\ line[Len(line)] = " "
    THEN RStrip(SubSeq(line, 1, Len(line) - 1)) ELSE line

Strip(line) == RStrip(LStrip(line))

\* the lines are compared with the delimiters as they are, not stripped
RECURSIVE lines_to_keep_NoStrip(_, _)
lines_to_keep_NoStrip(lines, in_badges) ==
    IF lines = <<>> THEN <<>>
    ELSE IF lines[1] = <<REAMDE_BADGES_START_DELIMITER>>
    THEN lines_to_keep_NoStrip(Tail(lines), TRUE)
    ELSE IF lines[1] = <<REAMDE_BADGES_END_DELIMITER>>
    THEN lines_to_keep_NoStrip(Tail(lines), FALSE)
    ELSE IF in_badges THEN lines_to_keep_NoStrip(Tail(lines), in_badges)
    ELSE <<lines[1]>> \o lines_to_keep_NoStrip(Tail(lines), in_badges)

\* every line is kept: the delimiters are not looked for
lines_to_keep_All(lines, in_badges) == lines

\* READMEMarkdownManager.__init__: the loop over f.readlines()
RECURSIVE lines_to_keep(_, _)
lines_to_keep(lines, in_badges) ==
    IF lines = <<>> THEN <<>>
    ELSE IF Strip(lines[1]) = <<REAMDE_BADGES_START_DELIMITER>>
    THEN lines_to_keep(Tail(lines), TRUE)
    ELSE IF Strip(lines[1]) = <<REAMDE_BADGES_END_DELIMITER>>
    THEN lines_to_keep(Tail(lines), FALSE)
    ELSE IF in_badges THEN lines_to_keep(Tail(lines), in_badges)
    ELSE <<lines[1]>> \o lines_to_keep(Tail(lines), in_badges)

\* the block with a second newline after the end delimiter: one more empty
\* line is written below the block
badges_lines_TwoNewlines(pypi, circle) ==
    << <<REAMDE_BADGES_START_DELIMITER>>,
       <<"[![GitHub release]">>,
       <<REAMDE_BADGES_END_DELIMITER>>,
       <<>> >>

\* pyproject_toml_builder.READMEMarkdownManager.badges_lines, as the lines of
\* the file they are written to; the badges line is stripped
badges_lines(pypi, circle) ==
    << <<REAMDE_BADGES_START_DELIMITER>>,
       Strip((IF circle THEN <<"[![CircleCI]", " ">> ELSE <<>>)
                 \o (IF pypi # "" THEN <<"[![PyPI]", " ">> ELSE <<>>)
                 \o <<"[![GitHub release]", " ">>
                 \o (IF pypi # "" THEN <<"[![Versions]", " ", "[![PyPI - License]", " ">>
                     ELSE <<>>)
                 \o <<"[![GitHub issues]", " ", "[![GitHub pull requests]", " ">>),
       <<REAMDE_BADGES_END_DELIMITER>> >>

\* setup_builder.READMEMarkdownManager.badges_lines
cfg_badges_lines(pypi, circle) ==
    << <<REAMDE_BADGES_START_DELIMITER>>,
       (IF circle THEN <<"[![CircleCI]", " ">> ELSE <<>>)
           \o (IF pypi # "" THEN <<"[![PyPI]", " ">> ELSE <<>>)
           \o <<"[![GitHub release]", " ">>
           \o (IF pypi # "" THEN <<"[![PyPI - License]", " ">> ELSE <<>>)
           \o <<"[![Lines of code]", " ", "[![GitHub issues]", " ",
                 "[![GitHub pull requests]", " ">>,
       <<REAMDE_BADGES_END_DELIMITER>> >>

\* READMEMarkdownManager.__init__: self.lines
READMEMarkdownManager_lines(b, lines, pypi, circle) ==
    (IF b = "toml" THEN badges_lines(pypi, circle) ELSE cfg_badges_lines(pypi, circle))
        \o lines_to_keep(lines, FALSE)

\* the lines a README.md may hold: a README has at most MaxLines of them
MaxLines == 4
ReadmeLines ==
    { <<"# title">>, <<"text">>,
      <<REAMDE_BADGES_START_DELIMITER>>, <<REAMDE_BADGES_END_DELIMITER>>,
      <<" ", REAMDE_BADGES_START_DELIMITER, " ">>,
      <<"[![old badge]">> }

InitReadme ==
    /\ builder \in {"toml", "ini"}
    /\ pc = "readme"
    /\ version = V_1_2_3
    /\ commit_message = <<"w", "i", "p">>
    /\ patch_without_tag = IF builder = "toml" THEN TRUE ELSE "True"
    /\ development_status = NONE
    /\ python_min = IF builder = "toml" THEN <<3, 6>> ELSE ReleaseText(<<3, 6>>)
    /\ python_max = IF builder = "toml" THEN <<3, 7>> ELSE ReleaseText(<<3, 7>>)
    /\ latest_py3 = NO_RELEASE
    /\ requires_python = NO_STRING /\ classifiers = NO_LIST
    /\ pypi_name \in {"", "wipac-pkg"}
    /\ author = "A" /\ author_email = "a@b"
    /\ keywords = <<KEYWORD>> /\ base_keywords = <<>>
    /\ package_dirs = <<>> /\ exclude_dirs = <<>>
    /\ packages = <<"a">> /\ readme = ".md"
    /\ FileDefaults /\ RepoDefaults /\ DocDefaults
    /\ circleci \in BOOLEAN
    /\ readme_out \in Tuples(ReadmeLines, 0, MaxLines)
    /\ readme_in = readme_out
    /\ DepDefaults /\ ArgDefaults

\* work: readme_mgr is built from the README as it is, and its lines are
\* written to readme_mgr.readme_path
work_readme_lines ==
    /\ pc = "readme" /\ builder = "toml" /\ runs < MaxRuns
    /\ readme_in' = readme_out
    /\ readme_out' = READMEMarkdownManager_lines(builder, readme_out, pypi_name, circleci)
    /\ runs' = runs + 1
    /\ UNCHANGED <<builder, pc, classifyVars, pythonVars, metaVars, foundVars, fileVars,
                   repoVars, auto_mypy_option, doc, doc_before, first_out, circleci,
                   depVars, argVars, cfg_reads, cfg_disk>>

\* main: the same, in setup_builder.py
main_readme_lines ==
    /\ pc = "readme" /\ builder = "ini" /\ runs < MaxRuns
    /\ readme_in' = readme_out
    /\ readme_out' = READMEMarkdownManager_lines(builder, readme_out, pypi_name, circleci)
    /\ runs' = runs + 1
    /\ UNCHANGED <<builder, pc, classifyVars, pythonVars, metaVars, foundVars, fileVars,
                   repoVars, auto_mypy_option, doc, doc_before, first_out, circleci,
                   depVars, argVars, cfg_reads, cfg_disk>>

NextReadme == work_readme_lines \/ main_readme_lines

SpecReadme == InitReadme /\ [][NextReadme]_vars

----------------------------------------------------------------------------
(* ensure_dependabot.py.  A YAML value is a record: kind says what it is,  *)
(* text holds a scalar, items the pairs <<key, value>> of a mapping in     *)
(* file order, or the pairs <<"-", value>> of a list.                      *)

StrValue(t) == [kind |-> "str", text |-> t, items |-> <<>>]
IntValue(t) == [kind |-> "int", text |-> t, items |-> <<>>]
FloatValue(t) == [kind |-> "float", text |-> t, items |-> <<>>]
Null == [kind |-> "null", text |-> "", items |-> <<>>]
Dict(pairs) == [kind |-> "dict", text |-> "", items |-> pairs]
List(values) ==
    [kind |-> "list", text |-> "",
     items |-> [i \in 1..Len(values) |-> <<"-", values[i]>>]]

\* the values of a list, in order
Values(list) == [i \in 1..Len(list.items) |-> list.items[i][2]]

\* dict.get(key) on a value: None unless it is a mapping with the key
DictGet(v, k) == IF v.kind = "dict" /\ HasKey(v.items, k) THEN Get(v.items, k) ELSE Null

\* data[key] = value
DictPut(v, k, x) == Dict(Put(v.items, k, x))

\* Python's ==: the int 2 and the float 2.0 are equal, nothing else is
PyEquals(a, b) ==
    \/ a = b
    \/ /\ a.kind \in {"int", "float"} /\ b.kind \in {"int", "float"}
       /\ {a.text, b.text} \subseteq {"2", "2.0"}

Schedule(interval) == Dict(<< <<"interval", StrValue(interval)>> >>)

Entry(ecosystem, directory, interval) ==
    Dict(<< <<"package-ecosystem", StrValue(ecosystem)>>,
            <<"directory", StrValue(directory)>>,
            <<"schedule", Schedule(interval)>> >>)

CANON_PIP == Entry("pip", "/", "weekly")
CANON_GHA == Entry("github-actions", "/", "weekly")

\* the file on disk: absent, or its parsed content
NoFile == [exists |-> FALSE, data |-> Null]
File(data) == [exists |-> TRUE, data |-> data]

\* load_or_init(dep_file)
load_or_init(file) ==
    IF ~file.exists
    THEN Dict(<< <<"version", IntValue("2")>>, <<"updates", List(<<>>)>> >>)
    ELSE LET data == IF file.data.kind # "dict" THEN Dict(<<>>) ELSE file.data
             versioned ==
                 IF ~PyEquals(DictGet(data, "version"), IntValue("2"))
                 THEN DictPut(data, "version", IntValue("2")) ELSE data
         IN  IF DictGet(versioned, "updates").kind # "list"
             THEN DictPut(versioned, "updates", List(<<>>)) ELSE versioned

\* the test of upsert_exact's loop on one object of the list
Matches(obj, desired) ==
    /\ obj.kind = "dict"
    /\ PyEquals(DictGet(obj, "package-ecosystem"), DictGet(desired, "package-ecosystem"))
    /\ PyEquals(DictGet(obj, "directory"), DictGet(desired, "directory"))

\* the desired object is appended without looking for its pair
upsert_exact_Append(yml, desired) ==
    DictPut(yml, "updates", List(Append(Values(DictGet(yml, "updates")), desired)))

\* upsert_exact(doc, desired): the first object with the pair is replaced
\* and the loop returns; without one the desired object is appended
upsert_exact(yml, desired) ==
    LET updates == Values(DictGet(yml, "updates"))
        hits == {i \in 1..Len(updates) : Matches(updates[i], desired)}
    IN  IF hits # {}
        THEN LET first == CHOOSE i \in hits : \A j \in hits : i <= j
             IN  DictPut(yml, "updates",
                     List([j \in 1..Len(updates) |->
                              IF j = first THEN desired ELSE updates[j]]))
        ELSE DictPut(yml, "updates", List(Append(updates, desired)))

\* yaml.safe_dump(doc, f, sort_keys=False): the keys in the order of doc
safe_dump(yml) == File(yml)

\* the update objects a dependabot.yml may hold
MaxUpdates == 3
UpdatePool ==
    { CANON_PIP, CANON_GHA,
      Entry("pip", "/", "daily"),
      Dict(Entry("pip", "/", "weekly").items \o << <<"target-branch", StrValue("dev")>> >>),
      Entry("pip", "/sub", "daily"),
      Entry("github-actions", "/", "monthly"),
      Entry("npm", "/", "weekly"),
      Dict(<< <<"package-ecosystem", StrValue("pip")>>, <<"schedule", Schedule("daily")>> >>),
      StrValue("pip") }

\* the files the script may find
DependabotFiles ==
    {NoFile, File(Null), File(StrValue("text")), File(List(<<CANON_PIP>>))}
    \cup {File(Dict(ver \o updates \o rest)) :
            ver \in {<<>>, << <<"version", IntValue("1")>> >>, << <<"version", IntValue("2")>> >>,
                         << <<"version", FloatValue("2.0")>> >>},
            updates \in {<<>>, << <<"updates", StrValue("none")>> >>}
                            \cup {<< <<"updates", List(us)>> >> :
                                    us \in Tuples(UpdatePool, 0, MaxUpdates)},
            rest \in {<<>>, << <<"registries", StrValue("r")>> >>}}

InitDependabot ==
    /\ builder = "dependabot" /\ pc = "load"
    /\ version = <<>> /\ commit_message = <<>> /\ patch_without_tag = TRUE
    /\ development_status = NONE
    /\ PythonDefaults /\ MetaDefaults /\ FileDefaults /\ RepoDefaults /\ DocDefaults
    /\ ReadmeDefaults /\ ArgDefaults
    /\ dep_file \in DependabotFiles
    /\ dep_in = dep_file
    /\ dep_doc = Null

othersOfDependabot ==
    <<builder, classifyVars, pythonVars, metaVars, foundVars, fileVars, repoVars,
      auto_mypy_option, doc, doc_before, first_out, readmeVars, argVars, cfg_reads,
      cfg_disk>>

\* main: doc = load_or_init(args.path)
dependabot_load ==
    /\ builder = "dependabot" /\ pc = "load" /\ runs < MaxRuns
    /\ dep_in' = dep_file
    /\ dep_doc' = load_or_init(dep_file)
    /\ pc' = "pip"
    /\ UNCHANGED <<othersOfDependabot, dep_file, runs>>

\* main: upsert_exact(doc, CANON_PIP)
dependabot_upsert_pip ==
    /\ builder = "dependabot" /\ pc = "pip"
    /\ dep_doc' = upsert_exact(dep_doc, CANON_PIP)
    /\ pc' = "gha"
    /\ UNCHANGED <<othersOfDependabot, dep_file, dep_in, runs>>

\* main: upsert_exact(doc, CANON_GHA)
dependabot_upsert_gha ==
    /\ builder = "dependabot" /\ pc = "gha"
    /\ dep_doc' = upsert_exact(dep_doc, CANON_GHA)
    /\ pc' = "dump"
    /\ UNCHANGED <<othersOfDependabot, dep_file, dep_in, runs>>

\* main: yaml.safe_dump(doc, f, sort_keys=False); the script may run again
dependabot_dump ==
    /\ builder = "dependabot" /\ pc = "dump"
    /\ dep_file' = safe_dump(dep_doc)
    /\ runs' = runs + 1
    /\ pc' = "load"
    /\ UNCHANGED <<othersOfDependabot, dep_doc, dep_in>>

NextDependabot ==
    \/ dependabot_load
    \/ dependabot_upsert_pip
    \/ dependabot_upsert_gha
    \/ dependabot_dump

SpecDependabot == InitDependabot /\ [][NextDependabot]_vars

----------------------------------------------------------------------------
(* pyproject_toml_builder.main: the command line, the parsed options and   *)
(* the GHAInput built from them.                                           *)

\* GHAInput.exclude_dirs: the default_factory
DEFAULT_EXCLUDE_DIRS ==
    <<"test", "tests", "doc", "docs", "resource", "resources", "example", "examples">>

\* an option of the command line: given with a value, or not given
Given(v) == [given |-> TRUE, value |-> v]
NotGiven(v) == [given |-> FALSE, value |-> v]

\* wipac_dev_tools.strtobool, the type of --patch-without-tag
strtobool(text) == get_patch_without_tag(text).val

\* parser.parse_args(): an option not given takes the default of its
\* add_argument, a given one goes through its type
parse_args(cmd) ==
    [patch_without_tag |->
         IF cmd.patch_without_tag.given THEN strtobool(cmd.patch_without_tag.value)
         ELSE TRUE,
     auto_mypy_option |->
         IF cmd.auto_mypy_option.given THEN strtobool(cmd.auto_mypy_option.value)
         ELSE FALSE,
     exclude_dirs |-> IF cmd.exclude_dirs.given THEN cmd.exclude_dirs.value ELSE <<>>,
     package_dirs |-> IF cmd.package_dirs.given THEN cmd.package_dirs.value ELSE <<>>]

\* GHAInput(**{k: v for k, v in vars(args).items() if v and ...}): a falsy
\* value is left out, and the field takes the default of the dataclass
GHAInput_kwargs(ns) ==
    [patch_without_tag |-> IF ns.patch_without_tag THEN ns.patch_without_tag ELSE TRUE,
     auto_mypy_option |-> IF ns.auto_mypy_option THEN ns.auto_mypy_option ELSE FALSE,
     exclude_dirs |-> IF ns.exclude_dirs # <<>> THEN ns.exclude_dirs
                      ELSE DEFAULT_EXCLUDE_DIRS,
     package_dirs |-> IF ns.package_dirs # <<>> THEN ns.package_dirs ELSE <<>>]

\* the command lines of the model
CommandLines ==
    [patch_without_tag : {NotGiven(""), Given("true"), Given("false"), Given("no")},
     auto_mypy_option : {NotGiven(""), Given("true"), Given("false")},
     exclude_dirs : {NotGiven(<<>>), Given(<<>>), Given(<<"tests">>)},
     package_dirs : {NotGiven(<<>>), Given(<<"a">>)}]

InitArgs ==
    /\ builder = "toml" /\ pc = "parse"
    /\ version \in {V_0_0_0, V_1_2_3}
    /\ commit_message \in {<<"w", "i", "p">>, SEMANTIC_RELEASE_PATCH[2]}
    /\ patch_without_tag = TRUE
    /\ development_status = NONE
    /\ python_min = <<3, 6>> /\ python_max = <<3, 7>> /\ latest_py3 = NO_RELEASE
    /\ requires_python = NO_STRING /\ classifiers = NO_LIST
    /\ MetaDefaults /\ FileDefaults /\ RepoDefaults /\ DocDefaults
    /\ ReadmeDefaults /\ DepDefaults
    /\ cfg_reads = 0 /\ cfg_disk = AS_FOUND
    /\ argv \in CommandLines
    /\ args = <<>>

\* main: args = parser.parse_args()
main_parse_args ==
    /\ builder = "toml" /\ pc = "parse"
    /\ args' = parse_args(argv)
    /\ pc' = "gha_input"
    /\ UNCHANGED <<builder, classifyVars, pythonVars, metaVars, foundVars, fileVars,
                   repoVars, docVars, readmeVars, depVars, cfg_reads, cfg_disk, argv>>

\* main: gha_input = GHAInput(**{...}), with its __post_init__
main_gha_input ==
    /\ builder = "toml" /\ pc = "gha_input"
    /\ LET kwargs == GHAInput_kwargs(args)
       IN  /\ patch_without_tag' = kwargs.patch_without_tag
           /\ auto_mypy_option' = kwargs.auto_mypy_option
           /\ exclude_dirs' = kwargs.exclude_dirs
           /\ package_dirs' = kwargs.package_dirs
    /\ error' = GHAInput_post_init(pypi_name, keywords, author, author_email,
                                   python_min, python_max)
    /\ pc' = IF error' = "" THEN "classify" ELSE "raised"
    /\ UNCHANGED <<builder, version, commit_message, development_status, pythonVars,
                   pypi_name, author, author_email, keywords, base_keywords, foundVars,
                   cfg_writes, readme_writes, repoVars, doc, doc_before, first_out, runs,
                   readmeVars, depVars, cfg_reads, cfg_disk, argVars>>

NextArgs ==
    \/ main_parse_args
    \/ main_gha_input
    \/ classify_toml

SpecArgs == InitArgs /\ [][NextArgs]_vars

----------------------------------------------------------------------------
(* Properties of the classifier (C1..C6) *)

STATUSES == {DEV_STATUS_PREALPHA_0_0_0, DEV_STATUS_ALPHA_0_0_Z,
             DEV_STATUS_BETA_0_Y_Z, DEV_STATUS_PROD_X_Y_Z}

\* the marker lists of the script that runs
MajorTags(b) == IF b = "toml" THEN SEMANTIC_RELEASE_MAJOR ELSE cfg_SEMANTIC_RELEASE_MAJOR
MinorTags(b) == IF b = "toml" THEN SEMANTIC_RELEASE_MINOR ELSE cfg_SEMANTIC_RELEASE_MINOR
PatchTags(b) == IF b = "toml" THEN SEMANTIC_RELEASE_PATCH ELSE cfg_SEMANTIC_RELEASE_PATCH

HasMajor(b, m) == \E i \in DOMAIN MajorTags(b) : StrIn(MajorTags(b)[i], m)
HasMinor(b, m) == \E i \in DOMAIN MinorTags(b) : StrIn(MinorTags(b)[i], m)
HasPatch(b, m) == \E i \in DOMAIN PatchTags(b) : StrIn(PatchTags(b)[i], m)

\* the flag as a boolean, whichever script runs
Flag == IF builder = "toml" THEN patch_without_tag ELSE patch_without_tag = "True"

Classified == pc = "classified"

\* all dot-separated components of s
RECURSIVE SplitDot(_)
SplitDot(s) ==
    LET dots == {i \in 1..Len(s) : s[i] = "."}
    IN  IF dots = {} THEN <<s>>
        ELSE LET d == CHOOSE i \in dots : \A j \in dots : i <= j
             IN  <<SubSeq(s, 1, d - 1)>> \o SplitDot(SubSeq(s, d + 1, Len(s)))

\* c is the decimal numeral of a natural number / of a positive one
IsNumeral(c) == c # <<>> /\ \A i \in 1..Len(c) : c[i] \in {Digits[d] : d \in 1..10}
IsPositive(c) == IsNumeral(c) /\ \E i \in 1..Len(c) : c[i] # "0"
IsZero(c) == c = <<"0">>

Form_0_0_Z(v) ==
    LET c == SplitDot(v)
    IN  Len(c) = 3 /\ IsZero(c[1]) /\ IsZero(c[2]) /\ IsPositive(c[3])

Form_0_Y_Z(v) ==
    LET c == SplitDot(v)
    IN  Len(c) = 3 /\ IsZero(c[1]) /\ IsPositive(c[2]) /\ IsNumeral(c[3])

Form_X_Y_Z(v) ==
    LET c == SplitDot(v)
    IN  Len(c) = 3 /\ IsPositive(c[1]) /\ IsNumeral(c[2]) /\ IsNumeral(c[3])

ThreeNaturals(v) ==
    LET c == SplitDot(v)
    IN  Len(c) = 3 /\ \A i \in 1..3 : IsNumeral(c[i])

\* C1: for version "0.0.0" the status is Production/Stable with a major
\* marker, else Beta with a minor marker, else Alpha with a patch marker or
\* patch_without_tag, else Pre-Alpha.
C1_Status_0_0_0 ==
    (Classified /\ version = V_0_0_0) =>
        development_status =
            IF HasMajor(builder, commit_message) THEN DEV_STATUS_PROD_X_Y_Z
            ELSE IF HasMinor(builder, commit_message) THEN DEV_STATUS_BETA_0_Y_Z
            ELSE IF HasPatch(builder, commit_message) \/ Flag
                 THEN DEV_STATUS_ALPHA_0_0_Z
            ELSE DEV_STATUS_PREALPHA_0_0_0

C1_Witness ==
    /\ Classified /\ version = V_0_0_0 /\ ~Flag
    /\ ~HasMajor(builder, commit_message) /\ ~HasMinor(builder, commit_message)
    /\ ~HasPatch(builder, commit_message) /\ commit_message # <<>>
    /\ development_status = DEV_STATUS_PREALPHA_0_0_0

\* C2: for a version 0.0.Z with Z > 0 the status is Production/Stable with
\* a major marker, else Beta with a minor marker, else Alpha, whatever
\* patch_without_tag is and whether or not a patch marker is present.
C2_Status_0_0_Z ==
    (Classified /\ Form_0_0_Z(version)) =>
        development_status =
            IF HasMajor(builder, commit_message) THEN DEV_STATUS_PROD_X_Y_Z
            ELSE IF HasMinor(builder, commit_message) THEN DEV_STATUS_BETA_0_Y_Z
            ELSE DEV_STATUS_ALPHA_0_0_Z

C2_Witness ==
    /\ Classified /\ Form_0_0_Z(version) /\ ~Flag
    /\ ~HasPatch(builder, commit_message)
    /\ development_status = DEV_STATUS_ALPHA_0_0_Z

\* C3: for a version 0.Y.Z with Y > 0 the status is Production/Stable with
\* a major marker and Beta otherwise; minor and patch markers and
\* patch_without_tag change nothing.
C3_Status_0_Y_Z ==
    (Classified /\ Form_0_Y_Z(version)) =>
        development_status =
            IF HasMajor(builder, commit_message) THEN DEV_STATUS_PROD_X_Y_Z
            ELSE DEV_STATUS_BETA_0_Y_Z

C3_Witness ==
    /\ Classified /\ Form_0_Y_Z(version) /\ ~Flag
    /\ HasPatch(builder, commit_message) /\ ~HasMajor(builder, commit_message)
    /\ development_status = DEV_STATUS_BETA_0_Y_Z

\* C4: for a version X.Y.Z with X >= 1 the status is Production/Stable for
\* every commit message and every patch_without_tag.
C4_Status_X_Y_Z ==
    (Classified /\ Form_X_Y_Z(version)) =>
        development_status = DEV_STATUS_PROD_X_Y_Z

C4_Witness ==
    /\ Classified /\ Form_X_Y_Z(version) /\ ~Flag
    /\ ~HasMajor(builder, commit_message) /\ HasMinor(builder, commit_message)
    /\ development_status = DEV_STATUS_PROD_X_Y_Z

\* C5 as claimed: every version that is not three non-negative integers
\* X.Y.Z ends in an error, never in one of the four statuses.
C5_MalformedIsError ==
    (Classified /\ ~ThreeNaturals(version)) => development_status \notin STATUSES

\* C5 as amended: the classifier ends in an error exactly for the versions
\* that neither start with "0." nor have a first dot-separated component
\* that is an integer >= 1; every other version, malformed or not, gets a
\* status.
C5_ErrorIffNoPrefixAndNoMajor ==
    Classified =>
        ( development_status \notin STATUSES
          <=> ( ~(Len(version) >= 2 /\ version[1] = "0" /\ version[2] = ".")
                /\ ~IsPositive(SplitDot(version)[1]) ) )

C5_Witness ==
    /\ Classified
    /\ SplitDot(version) = << <<"-", "1">>, <<"0">>, <<"0">> >>
    /\ development_status = RAISE_EXCEPTION

\* the classifier of the script that runs
Classify(b, v, p, m) ==
    IF b = "toml" THEN get_development_status(v, p, m)
    ELSE FromFiles_get_development_status(v, p, m)

\* the bump classes whose markers occur in m, and the highest of them
ClassesIn(b, m) ==
    {c \in {"major", "minor", "patch"} :
        \/ c = "major" /\ HasMajor(b, m)
        \/ c = "minor" /\ HasMinor(b, m)
        \/ c = "patch" /\ HasPatch(b, m)}

Highest(b, m) ==
    IF HasMajor(b, m) THEN {"major"}
    ELSE IF HasMinor(b, m) THEN {"minor"}
    ELSE IF HasPatch(b, m) THEN {"patch"}
    ELSE {}

MAJOR_UPPERCASE == <<"[", "M", "A", "J", "O", "R", "]">>

\* C6: the status of a message equals the status of every one-chunk message
\* that holds only a marker of its highest class (major over minor over
\* patch), and a marker in another letter case counts as no marker: a
\* message with "[MAJOR]" and no marker gets the status of the empty message.
C6_HighestClassWins ==
    Classified =>
        /\ \A m \in {Concat(parts) : parts \in Tuples(Chunks, 0, 1)} :
               ClassesIn(builder, m) = Highest(builder, commit_message)
                   => Classify(builder, version, patch_without_tag, m)
                          = development_status
        /\ (StrIn(MAJOR_UPPERCASE, commit_message)
                /\ ClassesIn(builder, commit_message) = {})
               => development_status
                      = Classify(builder, version, patch_without_tag, <<>>)

C6_Witness ==
    /\ Classified /\ version = V_0_0_0
    /\ ClassesIn(builder, commit_message) = {"major", "minor"}
    /\ development_status = DEV_STATUS_PROD_X_Y_Z

----------------------------------------------------------------------------
(* Properties of the python range (C7) *)

\* the decimal numerals of 0..15, written out
Numerals ==
    << <<"0">>, <<"1">>, <<"2">>, <<"3">>, <<"4">>, <<"5">>, <<"6">>, <<"7">>,
       <<"8">>, <<"9">>, <<"1", "0">>, <<"1", "1">>, <<"1", "2">>, <<"1", "3">>,
       <<"1", "4">>, <<"1", "5">> >>

Numeral(n) == Numerals[n + 1]

\* C7: with python_min = (3, m) and python_max = (3, M), given or fetched,
\* requires-python is ">=3.m, <3.(M+1)" and the classifier list is exactly
\* "Programming Language :: Python :: 3.r" for r = m, m+1, .., M in this order.
C7_PythonRange ==
    (builder = "toml" /\ pc = "constructed") =>
        LET m == python_min[2]
            M == python_max[2]
        IN  /\ python_min[1] = 3 /\ python_max[1] = 3
            /\ requires_python # NO_STRING =>
                   requires_python =
                       <<">", "=", "3", ".">> \o Numeral(m)
                           \o <<",", " ", "<", "3", ".">> \o Numeral(M + 1)
            /\ classifiers # NO_LIST =>
                   /\ Len(classifiers) = IF M >= m THEN M - m + 1 ELSE 0
                   /\ \A i \in 1..Len(classifiers) :
                          classifiers[i] =
                              <<"Programming Language :: Python :: 3.">>
                                  \o Numeral(m + i - 1)

C7_Witness ==
    /\ builder = "toml" /\ pc = "constructed"
    /\ python_min = <<3, 6>> /\ latest_py3 = <<3, 11>> /\ python_max = latest_py3
    /\ requires_python = <<">", "=", "3", ".", "6", ",", " ", "<", "3", ".", "1", "2">>
    /\ Len(classifiers) = 6
    /\ classifiers[1] = <<"Programming Language :: Python :: 3.", "6">>
    /\ classifiers[6] = <<"Programming Language :: Python :: 3.", "1", "1">>

----------------------------------------------------------------------------
(* Properties of a run (C8..C10) *)

\* the positions of a run from which only writes remain
AllChecked == {"built", "dumped", "written", "done"}

NothingWritten == cfg_writes = 0 /\ readme_writes = 0

\* the keyword list of the run is empty: no --keywords for the TOML builder;
\* for the INI builder no base keyword and a keywords_spaced that is blank or
\* only opens a quoted phrase
NoKeyword ==
    IF builder = "toml" THEN keywords = <<>>
    ELSE base_keywords = <<>> /\ keywords \in {<<>>, << <<"\"", "3">> >>}

PypiIncomplete ==
    pypi_name # "" /\ (author = "" \/ author_email = "" \/ NoKeyword)

\* C8: with pypi_name set and author, author_email or the keyword list empty,
\* the run never gets past the check that rejects it (the construction of the
\* inputs for the TOML builder, the [metadata] section for the INI builder),
\* a run that stopped carries an error, and neither the config file nor the
\* README has been written
C8_PypiIncompleteRejected ==
    PypiIncomplete =>
        /\ NothingWritten
        /\ builder = "toml" => pc \in {"construct", "raised"}
        /\ builder = "ini" =>
               pc \in {"read", "construct", "constructed", "files", "github", "raised"}
        /\ pc = "raised" => error # ""

C8_Witness ==
    /\ builder = "ini" /\ pypi_name # "" /\ author # "" /\ author_email # ""
    /\ keywords = << <<"\"", "3">> >> /\ base_keywords = <<>>
    /\ pc = "raised" /\ error = "Exception: keywords must be provided"
    /\ NothingWritten

\* python_min, or a python_max that was given or fetched, whose major is not 3
BadMajor ==
    IF builder = "toml"
    THEN python_min[1] # 3 \/ (python_max # <<>> /\ python_max[1] # 3)
    ELSE \/ python_min \in {<<"2", ".", "7">>, <<"4", ".", "0">>}
         \/ python_max \in {<<"2", ".", "7">>, <<"4", ".", "0">>}

C10_ErrorsPrecedeWrites ==
    /\ error # "" => NothingWritten
    /\ pc = "raised" => NothingWritten /\ error # ""
    /\ ~NothingWritten => error = "" /\ pc \in {"dumped", "written", "done"}

C10_Witness ==
    /\ builder = "toml" /\ pc = "raised" /\ Len(packages) = 2
    /\ error = "Exception: Version mismatch between packages"
    /\ requires_python # NO_STRING /\ NothingWritten

----------------------------------------------------------------------------
(* Properties of the runs on a config file (C11..C16) *)

\* C11: a second run with the same inputs leaves the config file exactly as
\* the first run left it, for every file the first run started from and for
\* both scripts.
C11_Idempotent == runs = 2 => doc = first_out

\* the sections a run merges its keys into
MergedSections == IF builder = "toml" THEN {"project"} ELSE {"metadata", "options"}

\* the dependency lists, which a run rewrites in sorted order (see C16)
DEPENDENCY_KEYS == {"dependencies", "install_requires"}

\* what the same inputs give on a file with nothing but the mandatory section
Fresh ==
    IF builder = "toml"
    THEN write_toml(<<Sec("project", << <<"version", One(V_1_2_3)>> >>)>>,
                    toml_inputs, One(<<"py.typed">>))
    ELSE write_setup_cfg(<<Sec(BUILDER_SECTION_NAME, BuilderSection_body)>>, cfg_inputs)

Keys(body) == {body[i][1] : i \in 1..Len(body)}

\* C12: after a run, in each merged section (project / metadata / options)
\* every key the run generates holds the value the inputs give, whatever it
\* held before, and every other key holds exactly what it held before the
\* run.
C12_MergedSections ==
    runs >= 1 =>
        \A n \in MergedSections :
            HasSection(doc_before, n) =>
                LET before == Section(doc_before, n)
                    after == SectionOr(doc, n, <<>>)
                    generated == Section(Fresh, n)
                IN  /\ \A k \in Keys(generated) \ DEPENDENCY_KEYS :
                           HasKey(after, k) /\ Get(after, k) = Get(generated, k)
                    /\ \A k \in Keys(before) \ (Keys(generated) \cup DEPENDENCY_KEYS) :
                           HasKey(after, k) /\ Get(after, k) = Get(before, k)

\* the release-automation section of the config file
SEMANTIC_RELEASE_SECTION ==
    IF builder = "toml" THEN "tool.semantic_release" ELSE "semantic_release"

\* the keys a run generates in it
SEMANTIC_RELEASE_KEYS ==
    IF builder = "toml"
    THEN <<"version_toml", "version_variables", "commit_parser",
           "commit_parser_options.major_tags", "commit_parser_options.minor_tags",
           "commit_parser_options.patch_tags", "build_command">>
    ELSE <<"version_variable", "upload_to_pypi", "patch_without_tag", "commit_parser",
           "major_emoji", "minor_emoji", "patch_emoji", "branch">>

\* C13: after every run the semantic_release section holds exactly the
\* generated keys, each with the value the current inputs give: it is what
\* the same inputs give on a file that had no such section, so nothing of
\* the section's prior content is left.
C13_SemanticReleaseReplaced ==
    runs >= 1 =>
        /\ HasSection(doc, SEMANTIC_RELEASE_SECTION)
        /\ LET after == Section(doc, SEMANTIC_RELEASE_SECTION)
           IN  /\ [i \in 1..Len(after) |-> after[i][1]] = SEMANTIC_RELEASE_KEYS
               /\ after = Section(Fresh, SEMANTIC_RELEASE_SECTION)

\* a run on a file whose semantic_release section held other keys and values
C13_Witness ==
    /\ runs = 1
    /\ HasSection(doc_before, SEMANTIC_RELEASE_SECTION)
    /\ HasKey(Section(doc_before, SEMANTIC_RELEASE_SECTION), "stale")
    /\ ~HasKey(Section(doc, SEMANTIC_RELEASE_SECTION), "stale")

\* the sections and tables the scripts write keys into
POLICY_SECTIONS ==
    IF builder = "toml"
    THEN {"build-system", "project", "project.urls", "project.optional-dependencies",
          "tool.semantic_release", "tool.setuptools.packages.find",
          "tool.setuptools.package-data"}
    ELSE {BUILDER_SECTION_NAME, "metadata", "semantic_release", "options",
          "options.packages.find", "options.package_data"}

\* C14: every section or table the scripts have no policy for (baz, foo.bar,
\* ...) has the same keys and values after a run as before it, for every
\* starting document.
C14_OtherSectionsUntouched ==
    runs >= 1 =>
        \A i \in 1..Len(doc_before) :
            doc_before[i].name \notin POLICY_SECTIONS =>
                /\ HasSection(doc, doc_before[i].name)
                /\ Section(doc, doc_before[i].name) = doc_before[i].body

\* the tool-owned sections, in the sequence a run on an empty file gives them
OWNED_SEQUENCE ==
    IF builder = "toml"
    THEN <<"project", "project.urls", "project.optional-dependencies", "build-system",
           "tool.semantic_release", "tool.setuptools.packages.find",
           "tool.setuptools.package-data">>
    ELSE <<BUILDER_SECTION_NAME, "metadata", "semantic_release", "options",
           "options.package_data", "options.packages.find">>

Position(x, seq) == CHOOSE i \in 1..Len(seq) : seq[i] = x

\* seq is in the order that order gives its members
InOrderOf(seq, order) ==
    \A i, j \in 1..Len(seq) :
        (i < j /\ InSeq(seq[i], order) /\ InSeq(seq[j], order))
            => Position(seq[i], order) < Position(seq[j], order)

\* C15 as stated: in every written file the tool-owned sections come first,
\* in a fixed sequence, and all other sections follow in the relative order
\* the input had them in.
C15_OwnedFirstRestInOrder ==
    runs >= 1 =>
        LET names == SectionNames(doc)
        IN  /\ \A i, j \in 1..Len(names) :
                   (i < j /\ names[j] \in POLICY_SECTIONS) => names[i] \in POLICY_SECTIONS
            /\ InOrderOf(names, OWNED_SEQUENCE)
            /\ SelectSeq(names, LAMBDA n : n \notin POLICY_SECTIONS)
                   = SelectSeq(SectionNames(doc_before),
                               LAMBDA n : n \notin POLICY_SECTIONS)

\* C15, amended: setup.cfg is written with [wipac:cicd_setup_builder],
\* [metadata], [semantic_release], [options] first, then every section whose
\* name starts with "options." (the user's own included) in sorted order,
\* then all other sections in the relative order the input had them in;
\* pyproject.toml is not reordered: the tables the input had keep their
\* relative order, wherever the tool-owned ones stood.
C15_SectionOrder ==
    runs >= 1 =>
        IF builder = "ini"
        THEN SectionNames(doc)
                 = <<BUILDER_SECTION_NAME, "metadata", "semantic_release", "options">>
                       \o SelectSeq(OPTIONS_DOT_SECTIONS, LAMBDA n : HasSection(doc, n))
                       \o SelectSeq(SectionNames(doc_before),
                                    LAMBDA n : /\ ~InSeq(n, OPTIONS_DOT_SECTIONS)
                                               /\ n \notin {BUILDER_SECTION_NAME, "metadata",
                                                            "semantic_release", "options"})
        ELSE SelectSeq(SectionNames(doc), LAMBDA n : HasSection(doc_before, n))
                 = SectionNames(doc_before)

\* a run of setup_builder.py on a file with the user's [options.extras_require]
\* after the user's [foo], and the builder section last
C15_Witness ==
    /\ runs = 1 /\ builder = "ini"
    /\ HasSection(doc_before, "foo") /\ HasSection(doc_before, "options.extras_require")
    /\ Position("foo", SectionNames(doc_before))
           < Position("options.extras_require", SectionNames(doc_before))
    /\ Position("options.extras_require", SectionNames(doc_before))
           < Position(BUILDER_SECTION_NAME, SectionNames(doc_before))
    /\ Position("options.extras_require", SectionNames(doc))
           < Position("foo", SectionNames(doc))

\* lines in ascending order
IsAscending(lines) ==
    \A i, j \in 1..Len(lines) : i < j => Rank(lines[i]) <= Rank(lines[j])

\* the section and key of the install dependencies, the section of the
\* optional-dependency groups, and the section of keywords and classifiers
DEPENDENCIES_SECTION == IF builder = "toml" THEN "project" ELSE "options"
DEPENDENCIES_KEY == IF builder = "toml" THEN "dependencies" ELSE "install_requires"
OPTIONAL_SECTION ==
    IF builder = "toml" THEN "project.optional-dependencies" ELSE "options.extras_require"
ABOUT_SECTION == IF builder = "toml" THEN "project" ELSE "metadata"

\* the keywords the caller supplied, in the caller's order
CallerKeywords ==
    IF builder = "toml" THEN keywords
    ELSE keywords_list(keywords, base_keywords, pypi_name).val

EachGroup(d, P(_)) ==
    HasSection(d, OPTIONAL_SECTION) =>
        \A i \in 1..Len(Section(d, OPTIONAL_SECTION)) : P(Section(d, OPTIONAL_SECTION)[i][2])

KeywordsKept ==
    CallerKeywords # <<>> =>
        /\ HasKey(Section(doc, ABOUT_SECTION), "keywords")
        /\ Get(Section(doc, ABOUT_SECTION), "keywords") = CallerKeywords

\* C16 as stated: in the written document the install dependencies and every
\* optional-dependency group are in ascending order, the keywords are in the
\* caller's order, and the first classifier is always the development
\* status.
C16_AllListsNormalised ==
    runs >= 1 =>
        /\ IsAscending(GetOr(Section(doc, DEPENDENCIES_SECTION), DEPENDENCIES_KEY, <<>>))
        /\ EachGroup(doc, IsAscending)
        /\ KeywordsKept
        /\ HasKey(Section(doc, ABOUT_SECTION), "classifiers") =>
               Get(Section(doc, ABOUT_SECTION), "classifiers")[1][1] \in STATUSES

\* C16, amended: pyproject.toml is written with project.dependencies and
\* every optional-dependency group in ascending order; setup.cfg is written
\* with options.install_requires in ascending order when it had two or more
\* lines, and with [options.extras_require] as it was; the keywords are in
\* the caller's order; in PyPI mode the classifiers are generated, the
\* development status first and nowhere else, and otherwise the classifiers
\* key is as it was.
C16_ListOrders ==
    runs >= 1 =>
        /\ IF builder = "toml"
           THEN /\ IsAscending(GetOr(Section(doc, "project"), "dependencies", <<>>))
                /\ EachGroup(doc, IsAscending)
           ELSE /\ Len(GetOr(SectionOr(doc_before, "options", <<>>),
                             "install_requires", <<>>)) >= 2
                       => IsAscending(Get(Section(doc, "options"), "install_requires"))
                /\ HasSection(doc_before, "options.extras_require")
                       => Section(doc, "options.extras_require")
                              = Section(doc_before, "options.extras_require")
        /\ KeywordsKept
        /\ LET before == SectionOr(doc_before, ABOUT_SECTION, <<>>)
               after == Section(doc, ABOUT_SECTION)
           IN  IF pypi_name # ""
               THEN /\ HasKey(after, "classifiers")
                    /\ Get(after, "classifiers")[1][1] \in STATUSES
                    /\ \A i \in 2..Len(Get(after, "classifiers")) :
                           Get(after, "classifiers")[i][1] \notin STATUSES
               ELSE /\ HasKey(after, "classifiers") <=> HasKey(before, "classifiers")
                    /\ HasKey(before, "classifiers")
                           => Get(after, "classifiers") = Get(before, "classifiers")

\* a run of pyproject_toml_builder.py in PyPI mode on a file whose
\* dependencies and optional-dependency group were not in order
C16_Witness ==
    /\ runs = 1 /\ builder = "toml" /\ pypi_name # ""
    /\ HasKey(Section(doc_before, "project"), "dependencies")
    /\ ~IsAscending(Get(Section(doc_before, "project"), "dependencies"))
    /\ HasSection(doc_before, "project.optional-dependencies")
    /\ ~EachGroup(doc_before, IsAscending)
    /\ Len(Get(Section(doc, "project"), "keywords")) = 2

----------------------------------------------------------------------------
(* Properties of a run in one repository (C17..C19) *)

\* the repository of the run
TheTree == CHOOSE t \in trees : TRUE
TheInits == CHOOSE f \in inits : TRUE

\* the directories with an __init__.py that are not excluded
Candidates ==
    Names(SelectSeq(TheTree, LAMBDA d : d.init /\ ~InSeq(d.name, exclude_dirs)))

\* the three cases in which no packages can be selected
SelectionFails ==
    \/ Candidates = <<>>
    \/ package_dirs = <<>> /\ Len(Candidates) > 1
    \/ \E i \in 1..Len(package_dirs) : ~InSeq(package_dirs[i], Candidates)

\* the packages to select otherwise
Selected == IF package_dirs # <<>> THEN package_dirs ELSE <<Candidates[1]>>

\* two selected packages declare different versions
SelectedMismatch ==
    /\ ~SelectionFails
    /\ \E i, j \in 1..Len(Selected) :
           /\ TheInits[Selected[i]].kind = "quoted"
           /\ TheInits[Selected[j]].kind = "quoted"
           /\ TheInits[Selected[i]].ver # TheInits[Selected[j]].ver

VERSION_MISMATCH == "Exception: Version mismatch between packages"

\* the errors of the steps that come before the versions are compared
BEFORE_VERSIONS ==
    IF builder = "toml"
    THEN {"NotADirectoryError",
          "AttributeError: 'list' object has no attribute 'split'",
          "FileNotFoundError: No README file found",
          "HTTPError",
          "Exception: pyproject.toml must have 'project.version'",
          RAISE_EXCEPTION, RAISE_VALUEERROR}
    ELSE {"MissingSectionException: 'setup.cfg' is missing the section",
          "NotADirectoryError"}

SelectedWithoutVersion ==
    /\ ~SelectionFails
    /\ \E i \in 1..Len(Selected) : TheInits[Selected[i]].kind \in {"absent", "call"}

\* the errors the scripts have for such an __init__.py
BAD_VERSION ==
    {"Exception: Cannot find __version__",
     "Exception: '__version__' must be in the semantic version format",
     "IndexError: list index out of range"}

\* C18: when a selected package's __init__.py has no __version__ assignment,
\* or one that cannot be read as a version, the run does not get past the
\* reading of the versions: if no earlier step failed it ends in an error
\* about that __version__, nothing is written, and the package is not
\* skipped.
C18_MissingVersionRejected ==
    SelectedWithoutVersion =>
        /\ cfg_writes = 0 /\ readme_writes = 0
        /\ pc \notin {"built", "dumped", "written", "done"}
        /\ pc = "raised" =>
               error \in BEFORE_VERSIONS \cup BAD_VERSION \cup {VERSION_MISMATCH}

\* the errors of package selection
SELECTION_ERRORS ==
    {"Exception: No package found",
     "Exception: Package directory not found",
     "Exception: More than one package found"}

ATTRIBUTE_ERROR == "AttributeError: 'list' object has no attribute 'split'"

\* the positions of a run at which the packages have been selected
AFTER_SELECTION ==
    {"files", "github", "validated", "project", "metadata", "built", "dumped", "written",
     "done"}

\* C19: package selection fails when no directory with an __init__.py is
\* found, when more than one is found and package_dirs is empty, and when
\* package_dirs names a directory that is not among those found, and then
\* no file is written; in every other case it does not fail, and the
\* selected packages are package_dirs in the given order, or the one
\* directory found.
C19_PackageSelection ==
    IF SelectionFails
    THEN /\ pc \notin AFTER_SELECTION
         /\ cfg_writes = 0 /\ readme_writes = 0
    ELSE /\ error \notin SELECTION_ERRORS \cup {ATTRIBUTE_ERROR}
         /\ pc \in AFTER_SELECTION => packages = Selected

----------------------------------------------------------------------------
(* Properties of the README run (C20) *)

IsStart(line) == Strip(line) = <<REAMDE_BADGES_START_DELIMITER>>
IsEnd(line) == Strip(line) = <<REAMDE_BADGES_END_DELIMITER>>

Starts(lines) == {i \in 1..Len(lines) : IsStart(lines[i])}
Ends(lines) == {i \in 1..Len(lines) : IsEnd(lines[i])}

\* one start delimiter line, one end delimiter line, in that order
OneBlock(lines) ==
    /\ Cardinality(Starts(lines)) = 1 /\ Cardinality(Ends(lines)) = 1
    /\ \A s \in Starts(lines), e \in Ends(lines) : s < e

\* C20 as stated: the run replaces only what is between the delimiter
\* lines: the lines before the block are the lines before it in the output,
\* and the lines after it are the lines after it in the output, wherever the
\* block stands.
C20_ReplacedInPlace ==
    (runs >= 1 /\ OneBlock(readme_in)) =>
        /\ OneBlock(readme_out)
        /\ \A s \in Starts(readme_in), e \in Ends(readme_in),
              so \in Starts(readme_out), eo \in Ends(readme_out) :
               /\ SubSeq(readme_out, 1, so - 1) = SubSeq(readme_in, 1, s - 1)
               /\ SubSeq(readme_out, eo + 1, Len(readme_out))
                      = SubSeq(readme_in, e + 1, Len(readme_in))

\* line i comes after a start delimiter line with no end delimiter line
\* between them
InBadges(lines, i) ==
    \E j \in 1..(i - 1) :
        IsStart(lines[j]) /\ \A k \in (j + 1)..(i - 1) : ~IsEnd(lines[k])

\* the lines from line i on that are no delimiter lines and not in badges
RECURSIVE OutsideFrom(_, _)
OutsideFrom(lines, i) ==
    IF i > Len(lines) THEN <<>>
    ELSE (IF IsStart(lines[i]) \/ IsEnd(lines[i]) \/ InBadges(lines, i) THEN <<>>
          ELSE <<lines[i]>>) \o OutsideFrom(lines, i + 1)

\* C20, amended: the written README starts with the new badge block (start
\* delimiter line, badges line, end delimiter line), wherever a block stood
\* in the input and also when there was none; after it come, unchanged and
\* in the order of the input, the input's lines that are no delimiter lines
\* and do not follow a start delimiter line without an end delimiter line
\* between; a run on the README it wrote leaves it as it is.
C20_BlockFirstThenOutside ==
    /\ runs >= 1 =>
           /\ Len(readme_out) >= 3
           /\ readme_out[1] = <<REAMDE_BADGES_START_DELIMITER>>
           /\ ~IsStart(readme_out[2]) /\ ~IsEnd(readme_out[2])
           /\ readme_out[3] = <<REAMDE_BADGES_END_DELIMITER>>
           /\ SubSeq(readme_out, 4, Len(readme_out)) = OutsideFrom(readme_in, 1)
    /\ runs >= 2 => readme_out = readme_in

\* a run on a README with a title line, then a badge block, then a text line
C20_Witness ==
    /\ runs = 1
    /\ OneBlock(readme_in)
    /\ \A s \in Starts(readme_in), e \in Ends(readme_in) : s = 2 /\ e = 3
    /\ Len(readme_in) = 4
    /\ readme_out[4] = readme_in[1] /\ readme_out[5] = readme_in[4]

----------------------------------------------------------------------------
(* Properties of repeated README runs (C21, C28) *)

\* C21: the README a run has written is a fixed point of the run: the same
\* run on it (same builder, same PyPI name, same .circleci/config.yml)
\* produces exactly its lines again, so any number of further runs leaves
\* it as the first run wrote it: no line is added, no block is repeated.
C21_RerunStable ==
    runs >= 1 =>
        /\ READMEMarkdownManager_lines(builder, readme_out, pypi_name, circleci)
               = readme_out
        /\ runs >= 2 => (readme_out = readme_in /\ Len(readme_out) = Len(readme_in))

\* a second run on a README with the block and two lines below it
C21_Witness ==
    /\ runs = 2
    /\ Len(readme_in) = 5
    /\ readme_in[4] = <<"# title">> /\ readme_in[5] = <<"text">>
    /\ readme_out = readme_in

\* C28: after every run, whatever delimiter lines the README held (none,
\* several, unmatched ones, ones with blanks around them), the written
\* README starts with the badge block and holds exactly one start delimiter
\* line, its first line, and exactly one end delimiter line, its third
\* line; no other line is a delimiter line.
C28_OneBlockOnTop ==
    runs >= 1 =>
        /\ Len(readme_out) >= 3
        /\ SubSeq(readme_out, 1, 3) =
               (IF builder = "toml" THEN badges_lines(pypi_name, circleci)
                ELSE cfg_badges_lines(pypi_name, circleci))
        /\ Starts(readme_out) = {1}
        /\ Ends(readme_out) = {3}

\* a run on a README with two start delimiter lines, one of them with blanks
\* around it, and one end delimiter line before them
C28_Witness ==
    /\ runs = 1
    /\ Cardinality(Starts(readme_in)) = 2
    /\ \E i \in Starts(readme_in) : readme_in[i] # <<REAMDE_BADGES_START_DELIMITER>>
    /\ \E e \in Ends(readme_in) : \A i \in Starts(readme_in) : e < i
    /\ Starts(readme_out) = {1} /\ Ends(readme_out) = {3}

----------------------------------------------------------------------------
(* Properties of the dependabot.yml run (C22, C29) *)

\* the run is complete: the file is written and not yet read again
DependabotDone == builder = "dependabot" /\ pc = "load" /\ runs >= 1

CANONS == <<CANON_PIP, CANON_GHA>>

\* the update objects the run found, and those it wrote
UpdatesIn == Values(DictGet(load_or_init(dep_in), "updates"))
UpdatesOut == Values(DictGet(dep_file.data, "updates"))

SamePair(obj, canon) ==
    /\ obj.kind = "dict"
    /\ DictGet(obj, "package-ecosystem") = DictGet(canon, "package-ecosystem")
    /\ DictGet(obj, "directory") = DictGet(canon, "directory")

HasPair(objs, canon) == \E i \in 1..Len(objs) : SamePair(objs[i], canon)

FirstWithPair(objs, canon) ==
    CHOOSE i \in 1..Len(objs) :
        SamePair(objs[i], canon) /\ \A j \in 1..(i - 1) : ~SamePair(objs[j], canon)

\* the canonical objects without an object of their pair, in the order of CANONS
Unmatched(objs) == SelectSeq(CANONS, LAMBDA canon : ~HasPair(objs, canon))

\* C22: for each canonical object (pip and github-actions, directory "/"):
\* when the list found holds an object with the same package-ecosystem and
\* directory, the canonical object stands in the written list at the place
\* of the first such object; when it holds none, the canonical object is
\* appended to the list, pip before github-actions; every object of the list
\* found whose pair is neither of the two is written unchanged at its place,
\* so in the order it had; nothing else is added or removed.
C22_UpsertByPair ==
    DependabotDone =>
        /\ \A c \in 1..Len(CANONS) :
               HasPair(UpdatesIn, CANONS[c]) =>
                   UpdatesOut[FirstWithPair(UpdatesIn, CANONS[c])] = CANONS[c]
        /\ Len(UpdatesOut) = Len(UpdatesIn) + Len(Unmatched(UpdatesIn))
        /\ SubSeq(UpdatesOut, Len(UpdatesIn) + 1, Len(UpdatesOut)) = Unmatched(UpdatesIn)
        /\ \A i \in 1..Len(UpdatesIn) :
               (\A c \in 1..Len(CANONS) : ~SamePair(UpdatesIn[i], CANONS[c])) =>
                   UpdatesOut[i] = UpdatesIn[i]

\* a run on a list with an npm object, then a daily pip object, then a pip
\* object of another directory: the pip object is replaced, the canonical
\* github-actions object appended
C22_Witness ==
    /\ DependabotDone /\ runs = 1
    /\ UpdatesIn = <<Entry("npm", "/", "weekly"), Entry("pip", "/", "daily"),
                     Entry("pip", "/sub", "daily")>>
    /\ UpdatesOut = <<Entry("npm", "/", "weekly"), CANON_PIP,
                      Entry("pip", "/sub", "daily"), CANON_GHA>>

----------------------------------------------------------------------------
(* Properties of the reads and writes of the config file (C23) *)

\* the run has written the config file for the last time
CfgComplete == pc \in {"written", "done"}

\* what the file holds when the run has written it for the last time
FINAL == IF builder = "ini" THEN ANNOTATED ELSE MERGED

\* C23 as stated: in one run the config file is read once and written once,
\* the one write coming when the merge is complete, and the file holds
\* nothing but what the run found or the final document.
C23_ReadOnceWrittenOnce ==
    /\ cfg_reads <= 1 /\ cfg_writes <= 1
    /\ CfgComplete => cfg_reads = 1 /\ cfg_writes = 1
    /\ cfg_disk \in {AS_FOUND, FINAL}

\* C23, amended: no write comes before the merge is complete and every
\* check has passed.  The TOML builder then writes the file once, having
\* read it once, or not at all when it did not exist.  The INI builder
\* writes the merged and reordered document, reads the file back, comments
\* its section headers and writes it a second time: two reads and two
\* writes, and between the two writes the file holds the document without
\* the header comments.
C23_ReadsAndWrites ==
    /\ cfg_writes = 0 <=> cfg_disk = AS_FOUND
    /\ cfg_writes >= 1 => error = "" /\ pc \in {"dumped", "written", "done"}
    /\ builder = "toml" =>
           /\ cfg_reads <= 1 /\ cfg_writes <= 1
           /\ CfgComplete => cfg_writes = 1 /\ cfg_disk = MERGED
    /\ builder = "ini" =>
           /\ pc = "dumped" => cfg_reads = 1 /\ cfg_writes = 1 /\ cfg_disk = MERGED
           /\ CfgComplete => cfg_reads = 2 /\ cfg_writes = 2 /\ cfg_disk = ANNOTATED
           /\ pc \notin {"dumped", "written", "done"} => cfg_reads <= 1

\* the INI builder after its second write
C23_Witness ==
    /\ builder = "ini" /\ pc = "written"
    /\ cfg_reads = 2 /\ cfg_writes = 2 /\ cfg_disk = ANNOTATED

----------------------------------------------------------------------------
(* Properties of package discovery (C24) *)

\* C24: package discovery ends without an error for every exclude list and
\* yields the names of the directories of the root that hold an __init__.py
\* and are not in the exclude list, and no other name; no excluded
\* directory is among the packages of the run.
C24_DiscoveryCompletes ==
    /\ error # ATTRIBUTE_ERROR
    /\ (builder = "toml" /\ pc \in AFTER_SELECTION \cup {"raised"}) =>
           iterate_dirnames(TheTree, exclude_dirs) = [err |-> "", val |-> Candidates]
    /\ (builder = "ini" /\ pc \in AFTER_SELECTION \cup {"raised"}) =>
           cfg_get_packages(TheTree, exclude_dirs) = Candidates
    /\ pc \in AFTER_SELECTION =>
           \A i \in 1..Len(packages) :
               InSeq(packages[i], Candidates) /\ ~InSeq(packages[i], exclude_dirs)

----------------------------------------------------------------------------
(* Properties of the package-discovery section (C25) *)

FIND_SECTION ==
    IF builder = "toml" THEN "tool.setuptools.packages.find" ELSE "options.packages.find"

\* every listed package, then every listed package with ".*"
IncludeList(dirs) == Lines(dirs) \o [i \in 1..Len(dirs) |-> <<dirs[i], ".*">>]

----------------------------------------------------------------------------
(* Properties of the two classifiers side by side (C26) *)

\* the flag as setup_builder.py reads it from [wipac:cicd_setup_builder]
FlagText == IF Flag THEN "True" ELSE "False"

\* what each script's classifier gives for the inputs of the run
StatusOfToml == get_development_status(version, Flag, commit_message)
StatusOfIni == FromFiles_get_development_status(version, FlagText, commit_message)

\* a development status, or "fails" for any exception
Outcome(s) == IF s \in STATUSES THEN s ELSE "fails"

\* C26 as stated: for every version, commit message and patch_without_tag
\* value the two classifiers give the same development status or both fail.
C26_SameStatus ==
    Classified => Outcome(StatusOfToml) = Outcome(StatusOfIni)

FEATURE == SEMANTIC_RELEASE_MINOR[2]

\* the message holds [feature] and neither [major] nor [minor], and the
\* version is 0.0.0 or starts with "0.0."
FeatureDecides ==
    /\ StrIn(FEATURE, commit_message)
    /\ ~HasMajor("toml", commit_message) /\ ~HasMinor("ini", commit_message)
    /\ (version = V_0_0_0 \/ StartsWith(version, V_0_0_))

\* C26, amended: the two classifiers have the same major markers ([major])
\* and the same patch markers ([patch], [fix]), but [feature] is a minor
\* marker for pyproject_toml_builder.py only.  They give the same status,
\* or both fail, except when [feature] decides: then the TOML classifier
\* gives Beta and the INI classifier gives Alpha, or Pre-Alpha for version
\* 0.0.0 with patch_without_tag false and no patch marker.  The status of
\* the run is the one of the script that runs.
C26_SameUnlessFeature ==
    Classified =>
        /\ development_status = IF builder = "toml" THEN StatusOfToml ELSE StatusOfIni
        /\ ~FeatureDecides => Outcome(StatusOfToml) = Outcome(StatusOfIni)
        /\ FeatureDecides =>
               /\ StatusOfToml = DEV_STATUS_BETA_0_Y_Z
               /\ StatusOfIni =
                      IF version = V_0_0_0 /\ ~Flag /\ ~HasPatch("ini", commit_message)
                      THEN DEV_STATUS_PREALPHA_0_0_0 ELSE DEV_STATUS_ALPHA_0_0_Z

\* setup_builder.py has classified version 0.0.0 with a [feature] message
\* and patch_without_tag false as Pre-Alpha
C26_Witness ==
    /\ Classified /\ builder = "ini" /\ version = V_0_0_0 /\ ~Flag
    /\ FeatureDecides
    /\ development_status = DEV_STATUS_PREALPHA_0_0_0
    /\ StatusOfToml = DEV_STATUS_BETA_0_Y_Z

----------------------------------------------------------------------------
(* Properties of the command line of pyproject_toml_builder.py (C27) *)

\* the GHAInput of the run has been built
InputBuilt == builder = "toml" /\ pc \in {"classify", "classified"}

\* C27: every option given on the command line has, in the GHAInput of the
\* run, the value it was given: --patch-without-tag false gives
\* patch_without_tag = False, so that version 0.0.0 with a commit message
\* without a marker is Pre-Alpha; an option that was not given has its
\* default.
C27_OptionsReachInput ==
    /\ InputBuilt =>
           /\ patch_without_tag =
                  IF argv.patch_without_tag.given
                  THEN strtobool(argv.patch_without_tag.value) ELSE TRUE
           /\ auto_mypy_option =
                  IF argv.auto_mypy_option.given
                  THEN strtobool(argv.auto_mypy_option.value) ELSE FALSE
           /\ exclude_dirs =
                  IF argv.exclude_dirs.given THEN argv.exclude_dirs.value
                  ELSE DEFAULT_EXCLUDE_DIRS
           /\ package_dirs =
                  IF argv.package_dirs.given THEN argv.package_dirs.value ELSE <<>>
    /\ (InputBuilt /\ pc = "classified" /\ version = V_0_0_0
            /\ commit_message = <<"w", "i", "p">>
            /\ argv.patch_without_tag = Given("false")) =>
           development_status = DEV_STATUS_PREALPHA_0_0_0

----------------------------------------------------------------------------
(* Properties of the written dependabot.yml (C29) *)

\* the places of the written list that hold an object with the pair of canon
PlacesOf(canon) == {i \in 1..Len(UpdatesOut) : SamePair(UpdatesOut[i], canon)}

\* C29: whatever parseable file the script found (none, no mapping, another
\* version, updates that is no list, a list that holds several pip or
\* github-actions objects), the written document has version 2 and its
\* updates hold exactly one object for pip with directory "/" and exactly
\* one for github-actions with directory "/", each the canonical object
\* with the weekly schedule; a second run writes the same document.
C29_CanonicalDocument ==
    DependabotDone =>
        /\ dep_file.exists /\ dep_file.data.kind = "dict"
        /\ PyEquals(DictGet(dep_file.data, "version"), IntValue("2"))
        /\ DictGet(dep_file.data, "updates").kind = "list"
        /\ \A c \in 1..Len(CANONS) :
               /\ Cardinality(PlacesOf(CANONS[c])) = 1
               /\ \A i \in PlacesOf(CANONS[c]) : UpdatesOut[i] = CANONS[c]
        /\ runs >= 2 => dep_file = dep_in

----------------------------------------------------------------------------
(* Properties of the python range for any order of the inputs (C30) *)

\* python_min and python_max, the fetched one too, are releases of Python 3
MajorsAre3 ==
    IF builder = "toml" THEN python_min[1] = 3 /\ python_max[1] = 3
    ELSE python_max = NO_RELEASE => latest_py3 \in {<<3, n>> : n \in 0..(MaxMinor + 1)}

\* text is ">=3.m, <3.k" with m < k: some release satisfies it
NonEmptyRange(text) ==
    \E m \in 0..(MaxMinor + 1), k \in 1..(MaxMinor + 2) :
        /\ m < k
        /\ text = <<">", "=", "3", ".">> \o Numeral(m)
                      \o <<",", " ", "<", "3", ".">> \o Numeral(k)

\* C30: when the python inputs are accepted, both majors being 3, the
\* requires-python range is not empty and the list of Python classifiers is
\* not empty, also when the minor of python_min is above the minor of
\* python_max.
C30_RangeNonEmpty ==
    (pc = "constructed" /\ MajorsAre3) =>
        /\ requires_python # NO_STRING => NonEmptyRange(requires_python)
        /\ classifiers # NO_LIST => classifiers # <<>>

====
